---- MODULE Spec2Model ----
(***************************************************************************)
(* Model of the AV1 daemon's discovery-to-replacement pipeline:            *)
(*   scan cycle   (daemon.rs  Daemon::start_scan_cycle / run_scan_cycle)   *)
(*   job channel and execution driver (daemon.rs  Daemon::run)             *)
(*   job executor (job_executor.rs  JobExecutor::execute)                  *)
(*   atomic replacer, size gate, skip markers, job store, metrics.         *)
(*                                                                         *)
(* One action is one uninterrupted piece of a task: the completion of the  *)
(* await it is suspended on followed by the synchronous code up to the     *)
(* next await.  File contents are abstracted to a kind ("original",        *)
(* "encoded", "partial", "missing") and a size.                            *)
(***************************************************************************)
EXTENDS Integers, Sequences, FiniteSets, TLC

(* ---------------------------- bounds ----------------------------------- *)
\* number of job ids (uuids) the scan cycle may hand out
MaxJobs == 2
\* number of scan cycles the scan task runs
MaxCycles == 2
\* number of times another process appends to a file that is being written
MaxWrites == 1
\* number of tokens of a job's JSON text that one write to the file carries
WriteTokens == 4

(* ------------------------- configuration ------------------------------- *)
Paths == {"a.mkv", "b.mkv"}

JobIds == 1..MaxJobs

\* scan.library_roots: each root is given by the video files found by walking it
library_roots == << <<"a.mkv">>, <<"b.mkv">> >>

\* sizes are in an abstract unit; gates.min_bytes in the same unit
gates_min_bytes == 50
InitialFileSize == 100
GrowStep == 1

\* JobExecutorConfig::default(): the daemon builds its executor with
\* JobExecutor::new, which takes the default pipeline configuration
\* max_size_ratio = 0.95f32, whose exact value is 15938355 / 2^24
max_size_ratio_num == 15938355
max_size_ratio_den == 16777216
keep_original == FALSE
write_why_sidecars == TRUE
\* scan.write_why_sidecars
scan_write_why_sidecars == TRUE

\* sizes the encoder's output file may have (0 = empty file)
OutputSizes == {0, 40, 100}

(* --------------------------- file contents ----------------------------- *)
Missing == [data |-> "missing", size |-> 0]
Partial == [data |-> "partial", size |-> 0]
OriginalFile(n) == [data |-> "original", size |-> n]
EncodedFile(n) == [data |-> "encoded", size |-> n]
Exists(f) == f.data # "missing"

(* --------------------- concurrency.rs: the plan ------------------------ *)
derive_max_jobs(cores) == IF cores >= 24 THEN 1 ELSE 2

\* cpu.logical_cores values the model starts from (one on each side of 24)
CoreChoices == {16, 32}

(* ---------------------- startup.rs: startup checks -------------------- *)
\* strings are sequences of characters where their content matters
UpperCase == <<"A", "B", "C", "D", "E", "F", "G", "H", "I", "J", "K", "L", "M",
               "N", "O", "P", "Q", "R", "S", "T", "U", "V", "W", "X", "Y", "Z">>
LowerCase == <<"a", "b", "c", "d", "e", "f", "g", "h", "i", "j", "k", "l", "m",
               "n", "o", "p", "q", "r", "s", "t", "u", "v", "w", "x", "y", "z">>

\* str::to_lowercase
to_lowercase(s) ==
  [i \in DOMAIN s |->
     IF \E k \in DOMAIN UpperCase : UpperCase[k] = s[i]
     THEN LowerCase[CHOOSE k \in DOMAIN UpperCase : UpperCase[k] = s[i]]
     ELSE s[i]]

\* str::contains
contains(s, sub) ==
  \E i \in 0..(Len(s) - Len(sub)) : SubSeq(s, i + 1, i + Len(sub)) = sub

\* FORBIDDEN_HW_FLAGS
FORBIDDEN_HW_FLAGS ==
  << <<"n", "v", "e", "n", "c">>, <<"q", "s", "v">>, <<"v", "a", "a", "p", "i">>,
     <<"c", "u", "d", "a">>, <<"a", "m", "f">>, <<"v", "c", "e">>,
     <<"q", "s", "v", "e", "n", "c">> >>

\* detect_hardware_flag: the first forbidden flag the lowercased string
\* contains, <<>> for None
detect_hardware_flag(s) ==
  LET found == {k \in DOMAIN FORBIDDEN_HW_FLAGS :
                  contains(to_lowercase(s), FORBIDDEN_HW_FLAGS[k])}
  IN IF found = {} THEN <<>>
     ELSE FORBIDDEN_HW_FLAGS[CHOOSE k \in found : \A m \in found : k <= m]

\* check_args_for_hardware_flags
check_args_for_hardware_flags(args, disallow_hardware_encoding) ==
  IF ~disallow_hardware_encoding THEN "Ok"
  ELSE IF \E i \in DOMAIN args : detect_hardware_flag(args[i]) # <<>>
  THEN "HardwareEncodingDetected"
  ELSE "Ok"

\* assert_software_only: returns Ok when the check is disabled, and Ok
\* after it when it is enabled (no configuration value is inspected)
assert_software_only(cfg) ==
  IF ~cfg.disallow_hardware_encoding THEN "Ok" ELSE "Ok"

\* run_startup_checks: software-only assertion, av1an, ffmpeg, in this order
run_startup_checks(cfg, av1an_ok, ffmpeg_ok) ==
  IF assert_software_only(cfg) # "Ok" THEN assert_software_only(cfg)
  ELSE IF ~av1an_ok THEN "Av1anUnavailable"
  ELSE IF ~ffmpeg_ok THEN "FfmpegVersion"
  ELSE "Ok"

\* the strings a configuration may hold: an encoder name, and a hardware
\* encoder's name in mixed case
ConfigStrings ==
  { <<"s", "v", "t", "-", "a", "v", "1">>,
    <<"h", "2", "6", "4", "_", "N", "v", "E", "n", "c">> }

\* the configurations the daemon may be started with
StartupConfigs ==
  [disallow_hardware_encoding : BOOLEAN,
   strings : { <<s>> : s \in ConfigStrings }
               \cup { <<s, t>> : s \in ConfigStrings, t \in ConfigStrings }]

\* no configuration is being checked: Daemon::new has returned
NoConfig == [disallow_hardware_encoding |-> FALSE, strings |-> <<>>]

VARIABLES
  startup_config,       \* Daemon::new: the configuration being checked at startup
  max_concurrent_jobs,  \* ConcurrencyPlan.max_concurrent_jobs
  permits,              \* JobExecutor.semaphore: available permits
  file,                 \* contents of each original_path
  backup,               \* contents of <original>.orig.<ts> of the latest replacement
  marker,               \* <path>.av1skip exists
  why,                  \* contents of <path>.why.txt ("" = no sidecar)
  writes_left,          \* appends another process will still make to a file
  source,               \* what kind of file each source file is
  job_state_dir,        \* the job store: set of persisted job records
  next_id,              \* next fresh job id
  scan_pc,              \* position of the scan task
  cycles,               \* scan cycles started
  existing_jobs,        \* scan task: the records loaded at the start of the cycle
  candidates,           \* scan task: candidates not yet processed in this cycle
  queue,                \* the job channel (ids of the jobs in it)
  drv_pc,               \* position of the execution driver
  drv_job,              \* the job the driver has received and not yet spawned
  job,                  \* executor-side Job and the position of its task
  output,               \* contents of each job's output_path
  chunks,               \* each job's temp chunks directory exists
  metrics               \* the shared MetricsSnapshot

\* The units of the daemon that the pipeline calls are also specified on
\* their own (StoreSpec: the job store of jobs.rs at the level of files;
\* LibSpec: the pure functions), with the state of their callers:
VARIABLES
  mem,                  \* jobs.rs: the caller's Job (a jobs::Job in memory)
  state_dir,            \* jobs.rs: the state directory and the files in it
  save_pc,              \* jobs.rs: position of the save_job in progress
  save_buf,             \* jobs.rs: what fs::write has still to write
  save_result,          \* jobs.rs: what the last save_job returned
  loaded,               \* jobs.rs: what the last load_jobs returned
  call,                 \* the pure function last called, with its arguments
  ret                   \* what that call returned

storeVars == <<mem, state_dir, save_pc, save_buf, save_result, loaded>>
libVars == <<call, ret>>
unitVars == <<storeVars, libVars>>

pipelineVars ==
  <<startup_config, max_concurrent_jobs, permits, file, backup, marker, why, writes_left,
    source, job_state_dir, next_id, scan_pc, cycles, existing_jobs, candidates,
    queue, drv_pc, drv_job, job, output, chunks, metrics>>

vars == <<pipelineVars, unitVars>>

fsVars == <<file, backup, marker, why, writes_left, source>>
scanVars == <<scan_pc, cycles, existing_jobs, candidates, next_id>>
chanVars == <<queue, drv_pc, drv_job>>

(* ------------------ size_gate.rs: check_size_gate ---------------------- *)
\* (original_bytes as f64 * max_ratio as f64) as u64: the f32 ratio widened
\* to f64 is the exact fraction num/den, and the product is exact for the
\* sizes of this model, so the cast truncates the exact product
SizeGateThreshold(original_bytes, num, den) == (original_bytes * num) \div den

check_size_gate(original_bytes, output_bytes, num, den) ==
  IF output_bytes >= SizeGateThreshold(original_bytes, num, den)
  THEN [kind |-> "Reject", original_bytes |-> original_bytes, output_bytes |-> output_bytes]
  ELSE [kind |-> "Accept", original_bytes |-> original_bytes, output_bytes |-> output_bytes]

(* ------------------- replace.rs: atomic_replace ------------------------ *)
\* fs::rename(src, dst): atomic; it either moves src over dst or fails and
\* changes nothing
RenameOutcomes(src, dst) ==
  {[ok |-> FALSE, src |-> src, dst |-> dst]}
    \cup (IF Exists(src) THEN {[ok |-> TRUE, src |-> Missing, dst |-> src]} ELSE {})

\* fs::copy(src, dst): on failure dst is untouched (the failure came before
\* dst was opened) or it is left truncated / partly written
CopyOutcomes(src, dst) ==
  {[ok |-> FALSE, dst |-> dst], [ok |-> FALSE, dst |-> Partial]}
    \cup (IF Exists(src) THEN {[ok |-> TRUE, dst |-> src]} ELSE {})

\* fs::remove_file(f)
RemoveOutcomes(f) ==
  {[ok |-> FALSE, file |-> f]}
    \cup (IF Exists(f) THEN {[ok |-> TRUE, file |-> Missing]} ELSE {})

\* Step 1 (replace.rs 107-112): rename, else copy then remove
BackupStep(orig) ==
  UNION { IF r.ok
          THEN {[res |-> "Ok", original |-> r.src, backup |-> r.dst]}
          ELSE UNION { IF ~c.ok
                       THEN {[res |-> "BackupFailed", original |-> orig, backup |-> c.dst]}
                       ELSE { [res |-> IF d.ok THEN "Ok" ELSE "BackupFailed",
                               original |-> d.file, backup |-> c.dst]
                              : d \in RemoveOutcomes(orig) }
                       : c \in CopyOutcomes(orig, Missing) }
          : r \in RenameOutcomes(orig, Missing) }

\* the restore of replace.rs 117: `let _ = fs::rename(&backup, original_path)`
RestoreOutcomes(bak, orig) == RenameOutcomes(bak, orig)

\* Steps 2 and 3 (replace.rs 115-126), from the state s step 1 left
CopyInStep(s, enc, keep) ==
  UNION { IF ~c.ok
          THEN { [res |-> "CopyFailed", original |-> r.dst, backup |-> r.src]
                 : r \in RestoreOutcomes(s.backup, c.dst) }
          ELSE IF keep
          THEN {[res |-> "Ok", original |-> c.dst, backup |-> s.backup]}
          ELSE { [res |-> IF d.ok THEN "Ok" ELSE "DeleteBackupFailed",
                  original |-> c.dst, backup |-> d.file]
                 : d \in RemoveOutcomes(s.backup) }
          : c \in CopyOutcomes(enc, s.original) }

\* a replacement that never deletes the backup
atomic_replace_backup_kept(orig, enc, keep) ==
  UNION { IF s.res # "Ok" THEN {s} ELSE CopyInStep(s, enc, TRUE)
          : s \in BackupStep(orig) }
\* every (result, original_path, backup) atomic_replace can end with; the
\* backup path is fresh (named by the current second), so it starts missing
atomic_replace(orig, enc, keep) ==
  UNION { IF s.res # "Ok" THEN {s} ELSE CopyInStep(s, enc, keep)
          : s \in BackupStep(orig) }

ReplaceErrors == {"BackupFailed", "CopyFailed", "DeleteBackupFailed"}

(* ------------------------ jobs.rs: job store --------------------------- *)
JobStatuses == {"pending", "running", "success", "failed", "skipped"}

\* a job that counts as active in every status but success
is_active_unless_success(j) == j.status # "success"
\* Job::is_active: matches!(status, Pending | Running)
is_active(j) == j.status = "pending" \/ j.status = "running"

\* job_exists_for_path: jobs.iter().any(|job| job.input_path == path && job.is_active())
job_exists_for_path(jobs, path) ==
  \E j \in jobs : j.input_path = path /\ is_active(j)

\* create_job: fresh id, stage Queued, status Pending
create_job(id, path) ==
  [id |-> id, input_path |-> path, stage |-> "queued", status |-> "pending"]

\* save_job writes <id>.json: the record with this id is replaced or added
save_job(dir, rec) == {r \in dir : r.id # rec.id} \cup {rec}

\* load_jobs: every record of the directory
load_jobs(dir) == dir

(* --------------------- scan.rs: scan_libraries ------------------------- *)
\* a marker path that is the video's own path
skip_marker_path_of_video(path) == <<path, "">>
\* scan.rs 27-31: the video's path with ".av1skip" appended
skip_marker_path(path) == <<path, ".av1skip">>

\* skip_marker.rs 40-44: File::create(marker_path) creates the empty
\* marker; a file that is already at that path is truncated
write_skip_marker(fs, mk, path) ==
  LET marker_path == skip_marker_path(path)
  IN IF marker_path[2] = ".av1skip"
     THEN [file |-> fs, marker |-> [mk EXCEPT ![marker_path[1]] = TRUE]]
     ELSE [file |-> [fs EXCEPT ![marker_path[1]] = Partial], marker |-> mk]

\* a scan that does not look for markers
has_skip_marker_unread(mk, path) == FALSE
\* has_skip_marker: skip_marker_path(path).exists()
has_skip_marker(mk, path) == mk[path]

\* the candidates of one root, in walk order: regular files without a marker
RECURSIVE ScanRoot(_, _, _)
ScanRoot(root, fs, mk) ==
  IF root = <<>> THEN <<>>
  ELSE LET p == Head(root)
           rest == ScanRoot(Tail(root), fs, mk)
       IN IF Exists(fs[p]) /\ ~has_skip_marker(mk, p)
          THEN <<[path |-> p, size_bytes |-> fs[p].size]>> \o rest
          ELSE rest

\* scan_libraries: the roots one after the other, candidates appended
RECURSIVE scan_libraries(_, _, _)
scan_libraries(roots, fs, mk) ==
  IF roots = <<>> THEN <<>>
  ELSE ScanRoot(Head(roots), fs, mk) \o scan_libraries(Tail(roots), fs, mk)

(* ------------------ stability.rs: compare_sizes ------------------------ *)
\* a comparison that finds every file stable
compare_sizes_always_stable(initial_size, current_size) == "Stable"
compare_sizes(initial_size, current_size) ==
  IF initial_size = current_size THEN "Stable" ELSE "Unstable"

(* ----------------------- gates.rs: check_gates ------------------------- *)
\* codec_name.to_lowercase().contains("av1"), on the codec names of the model
CodecIsAv1(codec) == codec \in {"av1", "AV1", "libaom-av1"}

\* what probe_file returns: an error, or a probe result (its video codecs)
ProbeOk(video_streams) == [ok |-> TRUE, video_streams |-> video_streams]
ProbeError == [ok |-> FALSE, video_streams |-> <<>>]

\* what a source file put into the library is: a video in some codec, a file
\* without a video stream, or one ffprobe cannot read
SourceKinds == {"h264", "AV1", "no_video", "unreadable"}
\* a.mkv is an H.264 video or an unreadable file; b.mkv is a file of any kind
SourceKindsOf(path) == IF path = "a.mkv" THEN {"h264", "unreadable"} ELSE SourceKinds

\* an ffprobe that reads every file as an H.264 video
probe_file_never_fails(f, kind) == ProbeOk(<<"h264">>)
\* probe_file on a path with content f whose source file was of the given
\* kind: ffprobe fails on an unreadable or partly written file, and reports
\* the codec of the content otherwise (av1 once the encoder's output has
\* replaced the source)
probe_file(f, kind) ==
  IF f.data \in {"missing", "partial"} \/ (f.data = "original" /\ kind = "unreadable")
  THEN ProbeError
  ELSE IF f.data = "encoded" THEN ProbeOk(<<"av1">>)
  ELSE IF kind = "no_video" THEN ProbeOk(<<>>)
  ELSE ProbeOk(<<kind>>)

\* gates that look at the size before the streams
check_gates_size_first(video_streams, file_size, min_bytes) ==
  IF file_size < min_bytes THEN "below minimum size"
  ELSE IF video_streams = <<>> THEN "no video streams"
  ELSE IF CodecIsAv1(Head(video_streams)) THEN "already AV1"
  ELSE "Pass"
\* gates that let a video through whatever its codec
check_gates_any_codec(video_streams, file_size, min_bytes) ==
  IF video_streams = <<>> THEN "no video streams"
  ELSE IF file_size < min_bytes THEN "below minimum size"
  ELSE "Pass"
check_gates(video_streams, file_size, min_bytes) ==
  IF video_streams = <<>> THEN "no video streams"
  ELSE IF file_size < min_bytes THEN "below minimum size"
  ELSE IF CodecIsAv1(Head(video_streams)) THEN "already AV1"
  ELSE "Pass"

(* -------------------- job_executor.rs: metrics ------------------------- *)
\* the stages update_job_metrics counts as running (job_executor.rs 455)
CountedAsRunning == {"encoding", "validating", "replacing"}

NoEntry == [stage |-> "none", size_in_bytes_before |-> 0, size_in_bytes_after |-> 0]

\* Job::to_metrics: stage from the job's state, size_in_bytes_after 0
to_metrics(j) ==
  [stage |-> j.state, size_in_bytes_before |-> j.size_in_bytes_before,
   size_in_bytes_after |-> 0]

\* update_job_metrics: replace the entry with the job's id or push a new
\* one, then recount running_jobs
update_job_metrics(m, id, j) ==
  LET js == [m.jobs EXCEPT ![id] = to_metrics(j)]
  IN [m EXCEPT !.jobs = js,
               !.running_jobs = Cardinality({i \in DOMAIN js : js[i].stage \in CountedAsRunning})]

\* a counter of completed jobs that is never advanced
increment_completed_jobs_dropped(m) == m
\* increment_completed_jobs: completed_jobs += 1
increment_completed_jobs(m) == [m EXCEPT !.completed_jobs = @ + 1]
increment_failed_jobs(m) == [m EXCEPT !.failed_jobs = @ + 1]
\* skipped jobs are counted as failed in the aggregate metrics
increment_skipped_jobs(m) == [m EXCEPT !.failed_jobs = @ + 1]

\* a size update that records the entry's size and leaves the total alone
update_job_size_after_entry_only(m, id, size_bytes) ==
  [m EXCEPT !.jobs = IF m.jobs[id].stage # "none"
                     THEN [@ EXCEPT ![id].size_in_bytes_after = size_bytes]
                     ELSE @]
\* update_job_size_after: set the entry's size and add to total_bytes_encoded
update_job_size_after(m, id, size_bytes) ==
  [m EXCEPT !.jobs = IF m.jobs[id].stage # "none"
                     THEN [@ EXCEPT ![id].size_in_bytes_after = size_bytes]
                     ELSE @,
            !.total_bytes_encoded = @ + size_bytes]

\* usize::saturating_sub(1)
saturating_dec(n) == IF n > 0 THEN n - 1 ELSE 0

(* ------------------ job_executor.rs: the semaphore --------------------- *)
\* Semaphore::new(plan.max_concurrent_jobs)
InitialPermits(plan_max_concurrent_jobs) == plan_max_concurrent_jobs
\* a permit that is kept when its holder returns
drop_permit_leaked(p) == p
\* the OwnedSemaphorePermit bound to _permit is dropped when execute
\* returns: the permit goes back to the semaphore
drop_permit(p) == p + 1
\* a semaphore whose acquire never waits
PermitAvailable_never_waits(p) == TRUE
\* acquire_owned completes only when a permit is available
PermitAvailable(p) == p > 0

(* ----------------------------- initial state --------------------------- *)
\* job_executor.rs Job::new: state Queued, size_in_bytes_before set by the
\* scan cycle; pc is the position of the job's task
NoJob == [pc |-> "none", input_path |-> "", size_in_bytes_before |-> 0,
          state |-> "queued", output_bytes |-> 0, err |-> "none", result |-> "none"]

NewJob(path, size) == [NoJob EXCEPT !.pc = "queued", !.input_path = path,
                                    !.size_in_bytes_before = size]

\* the record found in job_state_dir at startup: one left by an earlier run
\* for b.mkv, in a terminal status
PriorJobStateDir ==
  {[id |-> 0, input_path |-> "b.mkv", stage |-> "encoding", status |-> "failed"]}

\* metrics.rs MetricsSnapshot::default
DefaultMetrics ==
  [jobs |-> [i \in JobIds |-> NoEntry], queue_len |-> 0, running_jobs |-> 0,
   completed_jobs |-> 0, failed_jobs |-> 0, total_bytes_encoded |-> 0]

(* ----------------- the units at rest, the daemon stopped --------------- *)
\* no jobs::Job in memory
NoManagedJob == [id |-> "", input_path |-> "", stage |-> "queued", status |-> "pending",
                 source_type |-> "Unknown", error_reason |-> <<>>]
\* the state directory does not exist
MissingDir == [exists |-> FALSE, files |-> {}]
\* load_jobs has not been called, or its result has been dropped
NoLoad == [ok |-> FALSE, cause |-> "not called", jobs |-> {}]
\* no pure function has been called
NoCall == [fn |-> "none"]
NoRet == [v |-> "none"]

StoreIdle ==
  /\ mem = NoManagedJob /\ state_dir = MissingDir
  /\ save_pc = "idle" /\ save_buf = <<>> /\ save_result = "none"
  /\ loaded = NoLoad

LibIdle == call = NoCall /\ ret = NoRet

Init ==
  /\ StoreIdle /\ LibIdle
  /\ startup_config \in StartupConfigs
  /\ max_concurrent_jobs \in {derive_max_jobs(c) : c \in CoreChoices}
  /\ permits = InitialPermits(max_concurrent_jobs)
  /\ file = [p \in Paths |-> OriginalFile(InitialFileSize)]
  /\ backup = [p \in Paths |-> Missing]
  /\ marker = [p \in Paths |-> FALSE]
  /\ why = [p \in Paths |-> ""]
  /\ writes_left = [p \in Paths |-> IF p = "b.mkv" THEN MaxWrites ELSE 0]
  /\ source \in {f \in [Paths -> SourceKinds] : \A p \in Paths : f[p] \in SourceKindsOf(p)}
  /\ job_state_dir = PriorJobStateDir
  /\ next_id = 1
  /\ scan_pc = "startup"
  /\ cycles = 0
  /\ existing_jobs = {}
  /\ candidates = <<>>
  /\ queue = <<>>
  /\ drv_pc = "recv"
  /\ drv_job = 0
  /\ job = [i \in JobIds |-> NoJob]
  /\ output = [i \in JobIds |-> Missing]
  /\ chunks = [i \in JobIds |-> FALSE]
  /\ metrics = DefaultMetrics

(* ------------------------ daemon.rs: Daemon::new ----------------------- *)
\* daemon.rs 118-150: the startup checks; when they pass, the directories
\* are created and the daemon is built and started (the scan task sleeps
\* until its first cycle); when they fail, new returns the error and
\* nothing runs
Startup ==
  /\ scan_pc = "startup"
  /\ \E av1an_ok, ffmpeg_ok \in BOOLEAN :
       scan_pc' = IF run_startup_checks(startup_config, av1an_ok, ffmpeg_ok) = "Ok"
                  THEN "sleep"
                  ELSE "aborted"
  /\ startup_config' = NoConfig
  /\ UNCHANGED <<unitVars, max_concurrent_jobs, permits, fsVars, job_state_dir, next_id, cycles,
                 existing_jobs, candidates, chanVars, job, output, chunks, metrics>>

(* --------------------------- other processes --------------------------- *)
\* a file still being copied into the library grows.  Only the scan cycle
\* reads sizes (at discovery and at the re-stat of the stability check), so
\* the appends are taken between the two
WriterAppends(p) ==
  /\ writes_left[p] > 0
  /\ file[p].data = "original"
  /\ \E i \in DOMAIN candidates : candidates[i].path = p
  /\ file' = [file EXCEPT ![p].size = @ + GrowStep]
  /\ writes_left' = [writes_left EXCEPT ![p] = @ - 1]
  /\ UNCHANGED <<unitVars, startup_config, max_concurrent_jobs, permits, backup, marker, why, source,
                 job_state_dir, scanVars, chanVars, job, output, chunks, metrics>>

(* ------------------ daemon.rs: the scan cycle task --------------------- *)
\* daemon.rs 474-481: load the existing jobs once, scan the libraries
ScanBegin ==
  /\ scan_pc = "sleep"
  /\ cycles < MaxCycles
  /\ cycles' = cycles + 1
  /\ existing_jobs' = load_jobs(job_state_dir)
  /\ candidates' = scan_libraries(library_roots, file, marker)
  /\ scan_pc' = "loop"
  /\ UNCHANGED <<unitVars, startup_config, max_concurrent_jobs, permits, fsVars, job_state_dir, next_id,
                 chanVars, job, output, chunks, metrics>>

NextCandidate ==
  /\ candidates' = Tail(candidates)
  /\ UNCHANGED <<scan_pc, cycles, existing_jobs>>

\* daemon.rs 493-495: a job already exists for the path
CandidateHasJob ==
  /\ scan_pc = "loop" /\ candidates # <<>>
  /\ job_exists_for_path(existing_jobs, Head(candidates).path)
  /\ NextCandidate
  /\ UNCHANGED <<unitVars, startup_config, max_concurrent_jobs, permits, fsVars, job_state_dir, next_id,
                 chanVars, job, output, chunks, metrics>>

\* check_stability after the wait: Err when the metadata cannot be read,
\* else compare_sizes(initial, current)
StabilityOf(c, fs, io_ok) ==
  IF ~io_ok \/ ~Exists(fs[c.path]) THEN "IoError"
  ELSE compare_sizes(c.size_bytes, fs[c.path].size)

\* daemon.rs 498-511: unstable file or failed re-stat: skip it this cycle
CandidateNotStable ==
  /\ scan_pc = "loop" /\ candidates # <<>>
  /\ ~job_exists_for_path(existing_jobs, Head(candidates).path)
  /\ \E io_ok \in BOOLEAN : StabilityOf(Head(candidates), file, io_ok) # "Stable"
  /\ NextCandidate
  /\ UNCHANGED <<unitVars, startup_config, max_concurrent_jobs, permits, fsVars, job_state_dir, next_id,
                 chanVars, job, output, chunks, metrics>>

\* write_skip_marker (its result is dropped, `let _`), then write_why_sidecar
WriteMarkers(p, reason, marker_ok) ==
  /\ file' = IF marker_ok THEN write_skip_marker(file, marker, p).file ELSE file
  /\ marker' = IF marker_ok THEN write_skip_marker(file, marker, p).marker ELSE marker
  /\ why' = IF scan_write_why_sidecars THEN [why EXCEPT ![p] = reason] ELSE why

\* daemon.rs 514-526: the probe fails
CandidateProbeFailed ==
  /\ scan_pc = "loop" /\ candidates # <<>>
  /\ ~job_exists_for_path(existing_jobs, Head(candidates).path)
  /\ StabilityOf(Head(candidates), file, TRUE) = "Stable"
  /\ ~probe_file(file[Head(candidates).path], source[Head(candidates).path]).ok
  /\ \E marker_ok \in BOOLEAN :
       WriteMarkers(Head(candidates).path, "ffprobe failed", marker_ok)
  /\ NextCandidate
  /\ UNCHANGED <<unitVars, startup_config, max_concurrent_jobs, permits, backup, writes_left, source,
                 job_state_dir, next_id, chanVars, job, output, chunks, metrics>>

\* daemon.rs 529-541: a gate rejects the candidate
CandidateGateSkip ==
  /\ scan_pc = "loop" /\ candidates # <<>>
  /\ ~job_exists_for_path(existing_jobs, Head(candidates).path)
  /\ StabilityOf(Head(candidates), file, TRUE) = "Stable"
  /\ LET probe == probe_file(file[Head(candidates).path], source[Head(candidates).path])
         reason == check_gates(probe.video_streams, Head(candidates).size_bytes,
                               gates_min_bytes)
     IN /\ probe.ok
          /\ reason # "Pass"
          /\ \E marker_ok \in BOOLEAN :
               WriteMarkers(Head(candidates).path, reason, marker_ok)
  /\ NextCandidate
  /\ UNCHANGED <<unitVars, startup_config, max_concurrent_jobs, permits, backup, writes_left, source,
                 job_state_dir, next_id, chanVars, job, output, chunks, metrics>>

\* daemon.rs 542-568: the gates pass: create the job, save it (a failed
\* save is only logged), build the executor job and send it on the channel
Admit(capacity) ==
  /\ scan_pc = "loop" /\ candidates # <<>>
  /\ Len(queue) < capacity
  /\ ~job_exists_for_path(existing_jobs, Head(candidates).path)
  /\ StabilityOf(Head(candidates), file, TRUE) = "Stable"
  /\ next_id \in JobIds
  /\ LET probe == probe_file(file[Head(candidates).path], source[Head(candidates).path])
     IN
       /\ probe.ok
       /\ check_gates(probe.video_streams, Head(candidates).size_bytes,
                      gates_min_bytes) = "Pass"
  /\ \E save_ok \in BOOLEAN :
       job_state_dir' = IF save_ok
                        THEN save_job(job_state_dir, create_job(next_id, Head(candidates).path))
                        ELSE job_state_dir
  /\ job' = [job EXCEPT ![next_id] = NewJob(Head(candidates).path, Head(candidates).size_bytes)]
  /\ queue' = Append(queue, next_id)
  /\ next_id' = next_id + 1
  /\ scan_pc' = "queued"
  /\ UNCHANGED <<unitVars, startup_config, max_concurrent_jobs, permits, fsVars, cycles, existing_jobs, candidates,
                 drv_pc, drv_job, output, chunks, metrics>>

\* daemon.rs 140, 176, 199: mpsc::channel(100)
CHANNEL_CAPACITY == 100
\* the scan cycle admits a candidate; job_tx.send waits while the channel
\* holds CHANNEL_CAPACITY jobs
CandidateAdmit == Admit(CHANNEL_CAPACITY)

\* daemon.rs 569-570: after the send, queue_len += 1 under the write lock
ScanCountQueued ==
  /\ scan_pc = "queued"
  /\ metrics' = [metrics EXCEPT !.queue_len = @ + 1]
  /\ candidates' = Tail(candidates)
  /\ scan_pc' = "loop"
  /\ UNCHANGED <<unitVars, startup_config, max_concurrent_jobs, permits, fsVars, job_state_dir, next_id, cycles,
                 existing_jobs, chanVars, job, output, chunks>>

\* daemon.rs 577: all candidates processed, sleep until the next cycle
\* (the loaded records go out of scope)
ScanEnd ==
  /\ scan_pc = "loop" /\ candidates = <<>>
  /\ scan_pc' = "sleep"
  /\ existing_jobs' = {}
  /\ UNCHANGED <<unitVars, startup_config, max_concurrent_jobs, permits, fsVars, job_state_dir, next_id, cycles,
                 candidates, chanVars, job, output, chunks, metrics>>

(* ---------------- daemon.rs: the execution driver (run) ---------------- *)
\* daemon.rs 274-277: receive the next job
DriverRecv ==
  /\ drv_pc = "recv" /\ queue # <<>>
  /\ drv_job' = Head(queue)
  /\ queue' = Tail(queue)
  /\ drv_pc' = "count"
  /\ job' = [job EXCEPT ![Head(queue)].pc = "received"]
  /\ UNCHANGED <<unitVars, startup_config, max_concurrent_jobs, permits, fsVars, job_state_dir, scanVars,
                 output, chunks, metrics>>

\* daemon.rs 282-307: queue_len = saturating_sub(1), spawn the job's task
DriverSpawn ==
  /\ drv_pc = "count"
  /\ metrics' = [metrics EXCEPT !.queue_len = saturating_dec(@)]
  /\ job' = [job EXCEPT ![drv_job].pc = "wait_permit"]
  /\ drv_pc' = "recv"
  /\ drv_job' = 0
  /\ UNCHANGED <<unitVars, startup_config, max_concurrent_jobs, permits, fsVars, job_state_dir, scanVars,
                 queue, output, chunks>>

(* ------------- job_executor.rs: JobExecutor::execute ------------------- *)
execUnchangedScan == <<unitVars, startup_config, max_concurrent_jobs, job_state_dir, scanVars, chanVars>>

\* what the blocking encoder task can end with: run_av1an's result, or a
\* panic of the task (a JoinError)
EncodeOutcomes == {"Ok", "Av1anFailed", "Av1anTerminated", "Panic"}

\* the output file a successful encoder run can leave behind
EncoderOutputs == {Missing} \cup {EncodedFile(n) : n \in OutputSizes}

\* job_executor.rs 296-317: the validation of the output file
ValidateOutput(out) ==
  IF ~Exists(out) THEN "OutputMissing"
  ELSE IF out.size = 0 THEN "OutputEmpty"
  ELSE "Ok"

\* a size gate whose accepted jobs are marked completed at once
StateAfterSizeGate_no_replacing(r) == IF r.kind = "Accept" THEN "completed" ELSE "skipped"
\* job_executor.rs 329-410: the state the size gate's result leads to
StateAfterSizeGate(r) == IF r.kind = "Accept" THEN "replacing" ELSE "skipped"

\* an execute that lets the encoder task's panic through to its caller
JobErrorOf_panic_propagated(err) ==
  CASE err = "Encode" -> "Encode"
    [] err = "OutputMissing" -> "Validation(Output file not found)"
    [] err = "OutputEmpty" -> "Validation(Output file is empty)"
    [] err = "Panic" -> "panic"
    [] err \in ReplaceErrors -> "Replacement"
\* the JobError execute returns for each cause of failure, a Validation
\* error with the message the branch builds
JobErrorOf(err) ==
  CASE err = "Encode" -> "Encode"
    [] err = "OutputMissing" -> "Validation(Output file not found)"
    [] err = "OutputEmpty" -> "Validation(Output file is empty)"
    [] err = "Panic" -> "Validation(Encoding task panicked)"
    [] err \in ReplaceErrors -> "Replacement"

\* a cleanup that leaves the chunks of a failed encoder run in place
RemovesChunks_not_after_encoder_error(err) == err \in {"Panic", "OutputMissing", "OutputEmpty"}
\* the failure branches that remove the temp chunks directory (303, 314, 420, 432)
RemovesChunks(err) == err \in {"Encode", "Panic", "OutputMissing", "OutputEmpty"}
\* a cleanup that leaves an empty output file behind
RemovesOutput_never(err) == FALSE
\* the failure branch that removes the output file (315)
RemovesOutput(err) == err = "OutputEmpty"

\* 268-271: the permit is acquired; job.state = Encoding
AcquirePermit(j) ==
  /\ job[j].pc = "wait_permit"
  /\ PermitAvailable(permits)
  /\ permits' = permits - 1
  /\ job' = [job EXCEPT ![j].pc = "pub_encoding", ![j].state = "encoding"]
  /\ UNCHANGED <<execUnchangedScan, fsVars, output, chunks, metrics>>

\* 272-287: publish encoding, create the temp chunks directory, start the encoder
PublishEncoding(j) ==
  /\ job[j].pc = "pub_encoding"
  /\ metrics' = update_job_metrics(metrics, j, job[j])
  /\ chunks' = [chunks EXCEPT ![j] = TRUE]
  /\ job' = [job EXCEPT ![j].pc = "encoding"]
  /\ UNCHANGED <<execUnchangedScan, fsVars, permits, output>>

\* 272-276: publish encoding; create_dir_all fails and `?` returns
\* Err(TempDirCreation); the permit is dropped
TempDirCreationFails(j) ==
  /\ job[j].pc = "pub_encoding"
  /\ metrics' = update_job_metrics(metrics, j, job[j])
  /\ job' = [job EXCEPT ![j].pc = "done", ![j].result = "TempDirCreation"]
  /\ permits' = drop_permit(permits)
  /\ UNCHANGED <<execUnchangedScan, fsVars, output, chunks>>

\* 287-292, 413-415, 424-427: the encoder task ends
EncoderExits(j) ==
  /\ job[j].pc = "encoding"
  /\ \E outcome \in EncodeOutcomes :
       IF outcome = "Ok"
       THEN /\ \E out \in EncoderOutputs : output' = [output EXCEPT ![j] = out]
            /\ job' = [job EXCEPT ![j].pc = "pub_validating", ![j].state = "validating"]
       ELSE /\ output' = output
            /\ job' = [job EXCEPT ![j].pc = "pub_failed", ![j].state = "failed",
                                  ![j].err = IF outcome = "Panic" THEN "Panic" ELSE "Encode"]
  /\ UNCHANGED <<execUnchangedScan, fsVars, permits, chunks, metrics>>

\* 293-320: publish validating, check the output file
PublishValidating(j) ==
  /\ job[j].pc = "pub_validating"
  /\ metrics' = update_job_metrics(metrics, j, job[j])
  /\ LET v == ValidateOutput(output[j])
     IN job' = IF v = "Ok"
               THEN [job EXCEPT ![j].pc = "pub_size_gating", ![j].state = "size_gating",
                                ![j].output_bytes = output[j].size]
               ELSE [job EXCEPT ![j].pc = "pub_failed", ![j].state = "failed", ![j].err = v]
  /\ UNCHANGED <<execUnchangedScan, fsVars, permits, output, chunks>>

\* 321-332, 370-384: publish size_gating, run the size gate
PublishSizeGating(j) ==
  /\ job[j].pc = "pub_size_gating"
  /\ metrics' = update_job_metrics(metrics, j, job[j])
  /\ LET r == check_size_gate(job[j].size_in_bytes_before, job[j].output_bytes,
                              max_size_ratio_num, max_size_ratio_den)
         st == StateAfterSizeGate(r)
     IN job' = [job EXCEPT ![j].pc = IF st = "replacing" THEN "pub_replacing" ELSE "pub_skipped",
                           ![j].state = st]
  /\ UNCHANGED <<execUnchangedScan, fsVars, permits, output, chunks>>

\* 333-343, 356-359: publish replacing, call atomic_replace
PublishReplacing(j) ==
  /\ job[j].pc = "pub_replacing"
  /\ metrics' = update_job_metrics(metrics, j, job[j])
  /\ \E o \in atomic_replace(file[job[j].input_path], output[j], keep_original) :
       /\ file' = [file EXCEPT ![job[j].input_path] = o.original]
       /\ backup' = [backup EXCEPT ![job[j].input_path] = o.backup]
       /\ job' = IF o.res = "Ok"
                 THEN [job EXCEPT ![j].pc = "pub_completed", ![j].state = "completed"]
                 ELSE [job EXCEPT ![j].pc = "pub_failed", ![j].state = "failed", ![j].err = o.res]
  /\ UNCHANGED <<execUnchangedScan, marker, why, writes_left, source, permits, output,
                 chunks>>

\* 344: publish completed
PublishCompleted(j) ==
  /\ job[j].pc = "pub_completed"
  /\ metrics' = update_job_metrics(metrics, j, job[j])
  /\ job' = [job EXCEPT ![j].pc = "inc_completed"]
  /\ UNCHANGED <<execUnchangedScan, fsVars, permits, output, chunks>>

\* 345: completed_jobs += 1
IncrementCompleted(j) ==
  /\ job[j].pc = "inc_completed"
  /\ metrics' = increment_completed_jobs(metrics)
  /\ job' = [job EXCEPT ![j].pc = "size_after"]
  /\ UNCHANGED <<execUnchangedScan, fsVars, permits, output, chunks>>

\* 348-354: publish size_in_bytes_after, remove the temp chunks directory and
\* the output file, return Ok(job); the permit is dropped.  The driver
\* (daemon.rs 294-301) then stats output_path and adds its size to
\* total_bytes_encoded only when the file is still there.
FinishCompleted(j) ==
  /\ job[j].pc = "size_after"
  /\ LET m == update_job_size_after(metrics, j, job[j].output_bytes)
         out == Missing
     IN /\ output' = [output EXCEPT ![j] = out]
        /\ metrics' = IF Exists(out)
                      THEN [m EXCEPT !.total_bytes_encoded = @ + out.size]
                      ELSE m
  /\ chunks' = [chunks EXCEPT ![j] = FALSE]
  /\ job' = [job EXCEPT ![j].pc = "done", ![j].result = "Ok"]
  /\ permits' = drop_permit(permits)
  /\ UNCHANGED <<execUnchangedScan, fsVars>>

\* 301, 312, 360, 416, 428: publish failed
PublishFailed(j) ==
  /\ job[j].pc = "pub_failed"
  /\ metrics' = update_job_metrics(metrics, j, job[j])
  /\ job' = [job EXCEPT ![j].pc = "inc_failed"]
  /\ UNCHANGED <<execUnchangedScan, fsVars, permits, output, chunks>>

\* 302-304, 313-316, 361-366, 417-422, 429-434: failed_jobs += 1, the
\* branch's cleanup, return the error; the permit is dropped
FinishFailed(j) ==
  /\ job[j].pc = "inc_failed"
  /\ metrics' = increment_failed_jobs(metrics)
  /\ chunks' = IF RemovesChunks(job[j].err) THEN [chunks EXCEPT ![j] = FALSE] ELSE chunks
  /\ output' = IF RemovesOutput(job[j].err) THEN [output EXCEPT ![j] = Missing] ELSE output
  /\ job' = [job EXCEPT ![j].pc = "done", ![j].result = JobErrorOf(job[j].err),
                        ![j].err = "none"]
  /\ permits' = drop_permit(permits)
  /\ UNCHANGED <<execUnchangedScan, fsVars>>

\* 385: publish skipped
PublishSkipped(j) ==
  /\ job[j].pc = "pub_skipped"
  /\ metrics' = update_job_metrics(metrics, j, job[j])
  /\ job' = [job EXCEPT ![j].pc = "inc_skipped"]
  /\ UNCHANGED <<execUnchangedScan, fsVars, permits, output, chunks>>

\* 386-409: failed_jobs += 1, remove the output, write the skip marker, the
\* why sidecar (result dropped), remove the temp chunks directory, return
\* Err(SizeGateRejected)
FinishSkipped(j) ==
  /\ job[j].pc = "inc_skipped"
  /\ metrics' = increment_skipped_jobs(metrics)
  /\ output' = [output EXCEPT ![j] = Missing]
  /\ file' = write_skip_marker(file, marker, job[j].input_path).file
  /\ marker' = write_skip_marker(file, marker, job[j].input_path).marker
  /\ why' = IF write_why_sidecars
            THEN [why EXCEPT ![job[j].input_path] = "Size gate rejected"]
            ELSE why
  /\ chunks' = [chunks EXCEPT ![j] = FALSE]
  /\ job' = [job EXCEPT ![j].pc = "done", ![j].result = "SizeGateRejected"]
  /\ permits' = drop_permit(permits)
  /\ UNCHANGED <<execUnchangedScan, backup, writes_left, source>>

\* 386-393: failed_jobs += 1, remove the output; write_skip_marker fails and
\* `?` returns Err(SkipMarkerFailed) before the sidecar and the cleanup
SkipMarkerFails(j) ==
  /\ job[j].pc = "inc_skipped"
  /\ metrics' = increment_skipped_jobs(metrics)
  /\ output' = [output EXCEPT ![j] = Missing]
  /\ job' = [job EXCEPT ![j].pc = "done", ![j].result = "SkipMarkerFailed"]
  /\ permits' = drop_permit(permits)
  /\ UNCHANGED <<execUnchangedScan, fsVars, chunks>>

(* ------------------------------ the system ----------------------------- *)
Next ==
  \/ Startup
  \/ \E p \in Paths : WriterAppends(p)
  \/ ScanBegin
  \/ CandidateHasJob
  \/ CandidateNotStable
  \/ CandidateProbeFailed
  \/ CandidateGateSkip
  \/ CandidateAdmit
  \/ ScanCountQueued
  \/ ScanEnd
  \/ DriverRecv
  \/ DriverSpawn
  \/ \E j \in JobIds :
       \/ AcquirePermit(j)
       \/ PublishEncoding(j)
       \/ TempDirCreationFails(j)
       \/ EncoderExits(j)
       \/ PublishValidating(j)
       \/ PublishSizeGating(j)
       \/ PublishReplacing(j)
       \/ PublishCompleted(j)
       \/ IncrementCompleted(j)
       \/ FinishCompleted(j)
       \/ PublishFailed(j)
       \/ FinishFailed(j)
       \/ PublishSkipped(j)
       \/ FinishSkipped(j)
       \/ SkipMarkerFails(j)

Spec == Init /\ [][Next]_vars

(* ======================= properties of the pipeline ==================== *)
\* the positions of execute between the acquisition of the permit (268) and
\* its return, where the permit is dropped
InExecute == {"pub_encoding", "encoding", "pub_validating", "pub_size_gating",
              "pub_replacing", "pub_completed", "inc_completed", "size_after",
              "pub_failed", "inc_failed", "pub_skipped", "inc_skipped"}
HoldsPermit(j) == job[j].pc \in InExecute
PathOf(j) == job[j].input_path

\* C1: at every moment the number of jobs that have acquired an executor
\* permit in execute and have not yet returned is at most
\* plan.max_concurrent_jobs
C1_PermitBound ==
  Cardinality({j \in JobIds : HoldsPermit(j)}) <= max_concurrent_jobs

\* C1 case: the plan allows one job, one job holds the permit and another
\* spawned job is waiting in acquire_owned
C1_Contention ==
  /\ max_concurrent_jobs = 1
  /\ \E j, k \in JobIds : HoldsPermit(j) /\ job[k].pc = "wait_permit"

\* the step of job j in which atomic_replace returns an error
ReplaceReturnsError(j) ==
  /\ job[j].pc = "pub_replacing"
  /\ job'[j].pc = "pub_failed"
  /\ job'[j].err \in ReplaceErrors

\* C2: whenever atomic_replace returns an error (BackupFailed, CopyFailed or
\* DeleteBackupFailed), whichever filesystem step failed, original_path holds
\* the complete original content or the complete encoded content; it is
\* never missing, empty or partially written
C2_OriginalIntactOnError ==
  [][\A j \in JobIds :
       ReplaceReturnsError(j) =>
         file'[PathOf(j)] \in {file[PathOf(j)], output[j]}]_vars

\* a job is active from its admission until execute returns: it is in the
\* channel, held by the driver, waiting for a permit or executing
JobActive(j) == job[j].pc \notin {"none", "done"}

\* C3: at any time no two jobs with the same input_path are both active:
\* the scan cycle never admits a path for which a job is already queued or
\* executing
C3_OneActiveJobPerPath ==
  \A j, k \in JobIds :
    (j # k /\ JobActive(j) /\ JobActive(k)) => PathOf(j) # PathOf(k)

\* the stage an observer of the metrics snapshot sees for job j; a job has
\* no entry before its first publication, while it is in the state Job::new
\* gave it
PublishedStage(j) ==
  IF metrics.jobs[j].stage = "none" THEN NoJob.state ELSE metrics.jobs[j].stage

\* the order of the stages
StageOrder == <<"queued", "encoding", "validating", "size_gating", "replacing",
                "completed">>
StageIndex(st) == CHOOSE i \in DOMAIN StageOrder : StageOrder[i] = st
TerminalStages == {"completed", "failed", "skipped"}

\* from -> to is one step of the order, or the one terminal stage that ends
\* a prefix of it: failed, or skipped after size_gating
StageStepAllowed(from, to) ==
  /\ from \notin TerminalStages
  /\ \/ to \in {StageOrder[i] : i \in DOMAIN StageOrder}
           /\ StageIndex(to) = StageIndex(from) + 1
     \/ to = "failed"
     \/ to = "skipped" /\ from = "size_gating"

\* C4: for every job the stages published to the metrics snapshot follow
\* queued -> encoding -> validating -> size_gating -> replacing -> completed,
\* optionally ended by one terminal stage failed or skipped: whenever the
\* published stage changes it moves to the next stage of the order or to the
\* ending terminal stage, skipped only from size_gating, and nothing follows
\* a terminal stage
C4_StageOrder ==
  [][\A j \in JobIds :
       PublishedStage(j)' # PublishedStage(j) =>
         StageStepAllowed(PublishedStage(j), PublishedStage(j)')]_vars

\* C4 case: one job has gone through every stage to completed and another
\* has been ended by skipped
C4_CompletedAndSkipped ==
  \E j, k \in JobIds :
    /\ metrics.jobs[j].stage = "completed"
    /\ metrics.jobs[k].stage = "skipped"

\* C5: every call of execute that returns, on every return path, leaves the
\* job in a terminal state (completed, failed or skipped) in the metrics
\* snapshot
C5_TerminalOnReturn ==
  \A j \in JobIds :
    job[j].pc = "done" => metrics.jobs[j].stage \in TerminalStages

\* the paths of a sequence of candidates
CandidatePaths(cs) == {cs[i].path : i \in DOMAIN cs}
\* the step in which a scan cycle starts and scan_libraries returns
ScanStarts == scan_pc = "sleep" /\ scan_pc' = "loop"
\* the step in which the scan cycle creates a job: the record, the executor
\* job and the send on the channel
ScanAdmits == next_id' # next_id

\* C6: once <P>.av1skip exists, no later scan cycle emits P as a candidate,
\* creates a job record for P, enqueues P or invokes the encoder on P while
\* the marker exists: a scan that starts while the marker exists emits no
\* candidate for P, and a cycle creates records and jobs, and so encoder
\* runs, only for the candidates its scan emitted
C6_MarkedPathSuppressed ==
  [][/\ ScanStarts =>
          \A p \in Paths : marker[p] => p \notin CandidatePaths(candidates')
     /\ ScanAdmits =>
          /\ candidates # <<>>
          /\ job'[next_id].input_path = Head(candidates).path
          /\ queue' = Append(queue, next_id)
          /\ job_state_dir' \subseteq
                job_state_dir \cup {create_job(next_id, Head(candidates).path)}
          /\ \A j \in JobIds \ {next_id} : job'[j] = job[j]]_vars

\* C6 case: the second scan cycle has started while b.mkv.av1skip existed
\* and has emitted a.mkv but not b.mkv, which the walk reaches after it
C6_MarkedPathNotEmitted ==
  /\ cycles = 2 /\ scan_pc = "loop"
  /\ marker["b.mkv"] /\ Exists(file["b.mkv"])
  /\ Len(candidates) = 1 /\ Head(candidates).path = "a.mkv"

\* some record of the list is for the path and is pending or running
ActiveRecordFor(jobs, path) ==
  \E r \in jobs : r.input_path = path /\ r.status \in {"pending", "running"}

\* the records with their status replaced by st
WithStatus(jobs, st) == {[r EXCEPT !.status = st] : r \in jobs}

\* the scan task takes a step on the candidate at the head of the list
ScanHandlesCandidate ==
  /\ scan_pc = "loop" /\ candidates # <<>>
  /\ candidates' # candidates \/ scan_pc' # scan_pc

\* C7: in a scan cycle a candidate whose path has an active record (pending
\* or running) among the loaded records is passed over: nothing the probe's
\* outcome leads to happens (no marker, no sidecar), no record is created
\* and nothing is enqueued; and job_exists_for_path(jobs, path) is true
\* exactly when some job of the list has input_path = path and status
\* pending or running, for the loaded records in each status
C7_ActiveRecordSuppresses ==
  /\ [](\A p \in Paths : \A st \in JobStatuses :
          /\ job_exists_for_path(existing_jobs, p)
                <=> ActiveRecordFor(existing_jobs, p)
          /\ job_exists_for_path(WithStatus(existing_jobs, st), p)
                <=> ActiveRecordFor(WithStatus(existing_jobs, st), p))
  /\ [][(ScanHandlesCandidate
          /\ ActiveRecordFor(existing_jobs, Head(candidates).path))
        => /\ candidates' = Tail(candidates)
           /\ UNCHANGED <<marker, why, job_state_dir, next_id, queue, job,
                          metrics>>]_vars

\* C7 case: the candidate being handled has a pending record among the
\* loaded records, next to a record in a terminal status for another path
C7_CandidateWithActiveRecord ==
  /\ scan_pc = "loop" /\ candidates # <<>>
  /\ ActiveRecordFor(existing_jobs, Head(candidates).path)
  /\ \E r \in existing_jobs : r.status = "failed"

\* C8: after every stage transition the executor publishes,
\* metrics.running_jobs equals the number of JobMetrics entries whose stage
\* is one of encoding, validating, size_gating, replacing
C8_RunningJobsCount ==
  metrics.running_jobs =
    Cardinality({j \in JobIds : metrics.jobs[j].stage \in
                   {"encoding", "validating", "size_gating", "replacing"}})

\* the positions of execute in the Accept / Ok branch (332-354), starting
\* with the call of atomic_replace
AcceptBranch == {"pub_replacing", "pub_completed", "inc_completed", "size_after"}
\* job j takes a step
JobSteps(j) == job'[j] # job[j]
\* execute returns for job j
Returns(j) == job[j].pc # "done" /\ job'[j].pc = "done"
\* the jobs whose execute has passed increment_completed_jobs
CountedCompleted == {j \in JobIds : job[j].pc = "size_after" \/ job[j].result = "Ok"}

C10_RejectedJobSkipped ==
  [][\A j \in JobIds :
       /\ (job[j].pc \in {"pub_skipped", "inc_skipped"} /\ JobSteps(j)) =>
            /\ file' = file
            /\ metrics'.completed_jobs = metrics.completed_jobs
            /\ metrics'.failed_jobs =
                 metrics.failed_jobs + (IF job[j].pc = "inc_skipped" THEN 1 ELSE 0)
       /\ (job[j].pc = "inc_skipped" /\ Returns(j)) =>
            /\ metrics'.jobs[j].stage = "skipped"
            /\ ~Exists(output'[j])
            /\ marker'[PathOf(j)]
            /\ ~chunks'[j]]_vars

\* the step in which execute returns for job j after write_skip_marker has
\* failed in the Reject branch
MarkerWriteFailed(j) ==
  job[j].pc = "inc_skipped" /\ Returns(j) /\ job'[j].result = "SkipMarkerFailed"

\* C11: if writing the skip marker fails after a size-gate rejection, the
\* skip decision stands and the rest of the rejection handling is carried
\* out: the job stays skipped, the intermediate output and the temp chunks
\* directory are deleted, the why-sidecar is still attempted when enabled,
\* and the marker failure is reported to the caller as an error
C11_MarkerFailureKeepsCleanup ==
  [][\A j \in JobIds :
       (MarkerWriteFailed(j)
          \/ (job[j].pc = "inc_skipped" /\ Returns(j) /\ ~marker'[PathOf(j)])) =>
         /\ job'[j].result = "SkipMarkerFailed"
         /\ metrics'.jobs[j].stage = "skipped"
         /\ ~Exists(output'[j])
         /\ ~chunks'[j]
         /\ write_why_sidecars => why'[PathOf(j)] = "Size gate rejected"]_vars

\* job j is in the failure branch of execute for the cause err, between
\* the assignment of Failed and the return
InFailureBranch(j, causes) == job[j].err \in causes

\* what every failure branch that precedes the replacement does, for the
\* causes given: entered from the stage `from` with nothing published in
\* between, it touches neither the original files nor a skip marker,
\* publishes failed, increments failed_jobs exactly once and returns the
\* error `result` with the temp chunks directory deleted
FailsCleanly(j, causes, from, result) ==
  /\ (~InFailureBranch(j, causes) /\ InFailureBranch(j, causes)') =>
       /\ metrics.jobs[j].stage = from \/ metrics'.jobs[j].stage = from
       /\ job'[j].pc = "pub_failed" /\ job'[j].state = "failed"
       /\ file' = file /\ marker' = marker /\ backup' = backup
  /\ (InFailureBranch(j, causes) /\ JobSteps(j)) =>
       /\ file' = file /\ marker' = marker /\ backup' = backup
       /\ metrics'.jobs[j].stage = "failed"
       /\ metrics'.completed_jobs = metrics.completed_jobs
       /\ metrics'.failed_jobs =
            metrics.failed_jobs + (IF job[j].pc = "inc_failed" THEN 1 ELSE 0)
       /\ \/ job[j].pc = "pub_failed" /\ job'[j].pc = "inc_failed"
             /\ metrics.jobs[j].stage = from
          \/ job[j].pc = "inc_failed" /\ job'[j].pc = "done"
             /\ job'[j].result = result
             /\ ~chunks'[j]

C13_ReplaceFailureKeepsOriginal ==
  [][\A j \in JobIds :
       /\ ReplaceReturnsError(j) =>
            /\ file'[PathOf(j)] = file[PathOf(j)]
            /\ job'[j].state = "failed"
       /\ (InFailureBranch(j, ReplaceErrors) /\ JobSteps(j)) =>
            /\ metrics'.jobs[j].stage = "failed"
            /\ chunks'[j] = chunks[j] /\ chunks[j]
            /\ output'[j] = output[j] /\ Exists(output[j])
            /\ file' = file]_vars

\* C14: if copying the encoded file to original_path fails, atomic_replace
\* moves the backup back to original_path and returns CopyFailed; afterwards
\* original_path holds the original content and the encoded file has not
\* been deleted or modified
C14_CopyFailureRestores ==
  [][\A j \in JobIds :
       (ReplaceReturnsError(j) /\ job'[j].err = "CopyFailed") =>
         /\ file'[PathOf(j)] = file[PathOf(j)]
         /\ ~Exists(backup'[PathOf(j)])
         /\ output'[j] = output[j] /\ Exists(output[j])]_vars

ReturnedFromPanic(j) ==
  job[j].pc = "done" /\ job[j].result = "Validation(Encoding task panicked)"

Candidate == Head(candidates)
CandidateProbe == probe_file(file[Candidate.path], source[Candidate.path])

\* a gate rejects the candidate: the probe has no video stream, the file is
\* below the minimum size, or the first video stream's codec is AV1
RejectedByGate ==
  /\ CandidateProbe.ok
  /\ \/ CandidateProbe.video_streams = <<>>
     \/ Candidate.size_bytes < gates_min_bytes
     \/ Head(CandidateProbe.video_streams) \in {"av1", "AV1"}

\* the reason the sidecar of a rejected candidate holds
RejectionReason ==
  IF CandidateProbe.video_streams = <<>> THEN "no video streams"
  ELSE IF Candidate.size_bytes < gates_min_bytes THEN "below minimum size"
  ELSE "already AV1"

SizeChanged ==
  ~Exists(file[Candidate.path]) \/ file[Candidate.path].size # Candidate.size_bytes

\* the candidate would pass the stability check and the gates and has no
\* active record
Admissible ==
  /\ ~SizeChanged
  /\ ~ActiveRecordFor(existing_jobs, Candidate.path)
  /\ CandidateProbe.ok /\ ~RejectedByGate

\* the scan task passes the candidate over: it goes on to the next
\* candidate and leaves no trace
PassedOver ==
  /\ candidates' = Tail(candidates) /\ scan_pc' = "loop"
  /\ UNCHANGED <<marker, why, job_state_dir, next_id, queue, job, metrics, file>>

\* C18: a candidate whose size at re-stat differs from its size at
\* discovery, or whose re-stat fails with an IO error, is skipped for that
\* scan cycle with no skip marker written and no job created; in a later
\* cycle in which its size is unchanged across the stability wait (and it
\* passes the gates) it is admitted as a job: the scan task can then admit
\* it, and the only other thing it can do is pass it over (the re-stat
\* failing), never mark it
C18_UnstableSkippedThenAdmitted ==
  /\ [][/\ (ScanHandlesCandidate /\ SizeChanged) => PassedOver
        /\ (ScanHandlesCandidate /\ Admissible) =>
             \/ PassedOver
             \/ /\ ScanAdmits
                /\ job'[next_id].input_path = Candidate.path
                /\ job'[next_id].size_in_bytes_before = Candidate.size_bytes
                /\ UNCHANGED <<marker, why>>]_vars
  /\ []((scan_pc = "loop" /\ candidates # <<>> /\ next_id \in JobIds /\ Admissible)
          => ENABLED CandidateAdmit)

\* C18 case: b.mkv grew while the first cycle was waiting on it, so that
\* cycle skipped it; it has no marker, and the second cycle, which found it
\* at its new size, has admitted it as a job
C18_AdmittedOnceStable ==
  /\ cycles = 2 /\ ~marker["b.mkv"] /\ why["b.mkv"] = ""
  /\ \E j \in JobIds :
       /\ PathOf(j) = "b.mkv"
       /\ job[j].size_in_bytes_before = InitialFileSize + GrowStep

\* ffprobe cannot read the candidate: the file is unreadable as a media
\* file, or partly written
Unprobeable ==
  \/ file[Candidate.path].data = "partial"
  \/ file[Candidate.path].data = "original" /\ source[Candidate.path] = "unreadable"

HoldsHardwareFlag(cfg) ==
  \E i \in DOMAIN cfg.strings : \E k \in DOMAIN FORBIDDEN_HW_FLAGS :
    contains(to_lowercase(cfg.strings[i]), FORBIDDEN_HW_FLAGS[k])

\* C20: with disallow_hardware_encoding = true, startup aborts (before any
\* directory creation, scanning or job execution) whenever the
\* configuration contains a string with one of the substrings nvenc, qsv,
\* vaapi, cuda, amf, vce, qsvenc, compared case-insensitively
C20_HardwareFlagAbortsStartup ==
  [][(scan_pc = "startup" /\ scan_pc' # "startup"
      /\ startup_config.disallow_hardware_encoding
      /\ HoldsHardwareFlag(startup_config)) => scan_pc' = "aborted"]_vars

(* ------------- the job store after a job has ended (C21, C22) ---------- *)
\* execute has returned the encoder's error for job j and no other job for
\* its path is queued or executing
EndedFailedByEncoder(j) ==
  /\ job[j].pc = "done" /\ job[j].result = "Encode"
  /\ \A k \in JobIds : PathOf(k) = PathOf(j) => ~JobActive(k)

\* C21: after a job for path P ends failed by encoder failure (so that no
\* skip marker exists for P), the job store holds no active record for P,
\* and a scan cycle that starts afterwards loads no active record for P, so
\* that it admits P again as a new job
C21_FailedPathReadmitted ==
  /\ [](\A j \in JobIds :
          EndedFailedByEncoder(j) =>
            /\ ~marker[PathOf(j)]
            /\ ~ActiveRecordFor(load_jobs(job_state_dir), PathOf(j)))
  /\ [][\A j \in JobIds :
          (EndedFailedByEncoder(j) /\ ScanStarts) =>
            ~job_exists_for_path(existing_jobs', PathOf(j))]_vars

\* the status a job record takes for the executor's terminal job states
TerminalStatusOf(state) ==
  CASE state = "completed" -> "success"
    [] state = "failed" -> "failed"
    [] state = "skipped" -> "skipped"
    [] OTHER -> "pending"

\* C22: when a job has reached a terminal status (success, failed or
\* skipped) and execute has returned, the record saved for it in
\* job_state_dir carries that terminal status, so that load_jobs reports no
\* active record with its id
C22_TerminalStatusPersisted ==
  \A j \in JobIds :
    (job[j].pc = "done" /\ job[j].state \in {"completed", "failed", "skipped"}) =>
      \A r \in load_jobs(job_state_dir) :
        r.id = j => (r.status = TerminalStatusOf(job[j].state) /\ ~is_active(r))

(* ================= units specified on their own ======================= *)
\* the daemon is not running (Daemon::new returned an error): the state of
\* the pipeline while a unit is exercised on its own
PipelineStopped ==
  /\ startup_config = NoConfig
  /\ max_concurrent_jobs = derive_max_jobs(16)
  /\ permits = InitialPermits(max_concurrent_jobs)
  /\ file = [p \in Paths |-> OriginalFile(InitialFileSize)]
  /\ backup = [p \in Paths |-> Missing]
  /\ marker = [p \in Paths |-> FALSE]
  /\ why = [p \in Paths |-> ""]
  /\ writes_left = [p \in Paths |-> 0]
  /\ source = [p \in Paths |-> "h264"]
  /\ job_state_dir = {}
  /\ next_id = 1
  /\ scan_pc = "aborted"
  /\ cycles = 0
  /\ existing_jobs = {}
  /\ candidates = <<>>
  /\ queue = <<>>
  /\ drv_pc = "recv"
  /\ drv_job = 0
  /\ job = [i \in JobIds |-> NoJob]
  /\ output = [i \in JobIds |-> Missing]
  /\ chunks = [i \in JobIds |-> FALSE]
  /\ metrics = DefaultMetrics

(* ----------------- jobs.rs: the job store, file by file ---------------- *)
\* the variants of JobStage, JobStatus and SourceType, by the names serde
\* gives them (rename_all = "snake_case" for the first two, none for the
\* third)
JobStages == {"queued", "encoding", "validating", "size_gating", "replacing", "complete"}
SourceTypes == {"WebLike", "DiscLike", "Unknown"}

\* what the store is exercised with: the jobs created (uuid, input path,
\* source type), and the arguments of set_stage, set_status, fail and skip
JobInputs == {<<"j1", "a.mkv", "WebLike">>, <<"j2", "b.mkv", "Unknown">>}
StageInputs == {"encoding"}
StatusInputs == {"failed"}
ReasonInputs == {"size gate"}

\* create_job, with the fields the store's contract is about: stage Queued,
\* status Pending, error_reason None (an Option is a sequence of at most
\* one element)
NewManagedJob(id, input_path, source_type) ==
  [id |-> id, input_path |-> input_path, stage |-> "queued", status |-> "pending",
   source_type |-> source_type, error_reason |-> <<>>]

\* Job::set_stage, Job::set_status, Job::fail, Job::skip (touch only moves
\* updated_at, which is not modelled)
set_stage(j, stage) == [j EXCEPT !.stage = stage]
set_status(j, status) == [j EXCEPT !.status = status]
fail(j, reason) == [j EXCEPT !.status = "failed", !.error_reason = <<reason>>]
skip(j, reason) == [j EXCEPT !.status = "skipped", !.error_reason = <<reason>>]

\* serde_json::to_string_pretty(job): the JSON text as a sequence of tokens,
\* an opening brace, one <<key, type, value>> per field in the order of the
\* struct, a closing brace; None is written as null
to_string_pretty(j) ==
  << <<"{">>,
     <<"id", "string", j.id>>,
     <<"input_path", "string", j.input_path>>,
     <<"stage", "string", j.stage>>,
     <<"status", "string", j.status>>,
     <<"source_type", "string", j.source_type>>,
     IF j.error_reason = <<>> THEN <<"error_reason", "null", "">>
                              ELSE <<"error_reason", "string", j.error_reason[1]>>,
     <<"}">> >>

\* the tokens of the text that give a value to the key
FieldsOf(text, key) ==
  {text[i] : i \in {k \in 2..(Len(text) - 1) : text[k][1] = key}}

\* the text is one JSON object read to its end
IsObject(text) ==
  /\ Len(text) >= 2 /\ text[1] = <<"{">> /\ text[Len(text)] = <<"}">>
  /\ \A i \in 2..(Len(text) - 1) : Len(text[i]) = 3

\* the derived Deserialize of a field that is a String or an enum: present
\* once, a string, and for an enum the name of a variant
FieldOk(text, key, values) ==
  /\ Cardinality(FieldsOf(text, key)) = 1
  /\ \A t \in FieldsOf(text, key) : t[2] = "string" /\ (values = {} \/ t[3] \in values)

FieldValue(text, key) == (CHOOSE t \in FieldsOf(text, key) : TRUE)[3]

\* the derived Deserialize of error_reason: Option<String>: null or absent
\* is None
OptionOk(text, key) == Cardinality(FieldsOf(text, key)) <= 1

OptionValue(text, key) ==
  IF \E t \in FieldsOf(text, key) : t[2] = "string"
  THEN <<FieldValue(text, key)>>
  ELSE <<>>

\* a load that reports every text as a complete record
from_str_lenient(text) ==
  [ok |-> TRUE,
   job |-> IF Len(text) >= 2 /\ text[1] = <<"{">> /\ FieldsOf(text, "id") # {}
           THEN [NoManagedJob EXCEPT !.id = FieldValue(text, "id")]
           ELSE NoManagedJob]
\* serde_json::from_str::<Job>(content): the job, or an error when the text
\* is not a complete object or a field is missing or has no valid value
from_str(text) ==
  IF /\ IsObject(text)
     /\ FieldOk(text, "id", {}) /\ FieldOk(text, "input_path", {})
     /\ FieldOk(text, "stage", JobStages) /\ FieldOk(text, "status", JobStatuses)
     /\ FieldOk(text, "source_type", SourceTypes) /\ OptionOk(text, "error_reason")
  THEN [ok |-> TRUE,
        job |-> [id |-> FieldValue(text, "id"),
                 input_path |-> FieldValue(text, "input_path"),
                 stage |-> FieldValue(text, "stage"),
                 status |-> FieldValue(text, "status"),
                 source_type |-> FieldValue(text, "source_type"),
                 error_reason |-> OptionValue(text, "error_reason")]]
  ELSE [ok |-> FALSE, job |-> NoManagedJob]

\* load_job_from_file: read_to_string, then from_str
load_job_from_file(f) == from_str(f.text)

\* a scan of the directory that takes every file for a job record
is_json_file_any(f) == TRUE
\* load_jobs 240: path.extension() == Some("json")
is_json_file(f) == f.ext = "json"

\* state_dir.join(format!("{}.json", job.id))
JobFile(id, text) == [stem |-> id, ext |-> "json", text |-> text]
FileAt(d, stem, ext) == {f \in d.files : f.stem = stem /\ f.ext = ext}

\* files found in a state directory that save_job did not write: a text
\* file that holds a complete record, and a record whose status no variant
\* of JobStatus has
ForeignFiles ==
  {[stem |-> "notes", ext |-> "txt",
    text |-> to_string_pretty(NewManagedJob("j8", "n.mkv", "Unknown"))],
   [stem |-> "j9", ext |-> "json",
    text |-> to_string_pretty(set_status(NewManagedJob("j9", "o.mkv", "Unknown"),
                                          "cancelled"))]}

\* the caller's state when the store is exercised: nothing in memory, and a
\* state directory that does not exist yet or holds files of other origin
StoreInit ==
  /\ mem = NoManagedJob
  /\ state_dir \in {MissingDir, [exists |-> TRUE, files |-> ForeignFiles]}
  /\ save_pc = "idle" /\ save_buf = <<>> /\ save_result = "none"
  /\ loaded = NoLoad
  /\ LibIdle /\ PipelineStopped

storeCallerUnchanged == <<pipelineVars, libVars>>

\* jobs.rs 177-202: create_job; the uuid is fresh
CreateJob ==
  /\ save_pc = "idle"
  /\ \E in \in JobInputs :
       /\ FileAt(state_dir, in[1], "json") = {}
       /\ mem' = NewManagedJob(in[1], in[2], in[3])
  /\ save_result' = "none" /\ loaded' = NoLoad
  /\ UNCHANGED <<state_dir, save_pc, save_buf, storeCallerUnchanged>>

\* a call of one of the methods of Job on the job in memory
Mutates(new) ==
  /\ save_pc = "idle" /\ mem # NoManagedJob
  /\ mem' = new
  /\ save_result' = "none" /\ loaded' = NoLoad
  /\ UNCHANGED <<state_dir, save_pc, save_buf, storeCallerUnchanged>>

SetStage == \E stage \in StageInputs : Mutates(set_stage(mem, stage))
SetStatus == \E status \in StatusInputs : Mutates(set_status(mem, status))
Fail == \E reason \in ReasonInputs : Mutates(fail(mem, reason))
Skip == \E reason \in ReasonInputs : Mutates(skip(mem, reason))

\* jobs.rs 213-219: save_job up to the opening of the file. create_dir_all
\* fails (nothing changes) or leaves the directory in place; fs::write then
\* opens <id>.json with create and truncate, which fails (the file is
\* untouched) or leaves an empty file to be written
SaveJobOpen ==
  /\ save_pc = "idle" /\ mem # NoManagedJob
  /\ loaded' = NoLoad
  /\ \E dir_ok, open_ok \in BOOLEAN :
       IF ~dir_ok
       THEN /\ save_result' = "Err"
            /\ UNCHANGED <<state_dir, save_pc, save_buf>>
       ELSE IF ~open_ok
       THEN /\ state_dir' = [state_dir EXCEPT !.exists = TRUE]
            /\ save_result' = "Err"
            /\ UNCHANGED <<save_pc, save_buf>>
       ELSE /\ state_dir' = [exists |-> TRUE,
                             files |-> (state_dir.files \ FileAt(state_dir, mem.id, "json"))
                                         \cup {JobFile(mem.id, <<>>)}]
            /\ save_pc' = "writing"
            /\ save_buf' = to_string_pretty(mem)
            /\ save_result' = "none"
  /\ UNCHANGED <<mem, storeCallerUnchanged>>

\* the file being written, with one more piece of the text in it
WriteNext(d, id, piece) ==
  [d EXCEPT !.files =
     {IF f.stem = id /\ f.ext = "json" THEN [f EXCEPT !.text = @ \o piece] ELSE f
        : f \in d.files}]

\* the piece of the text that one write passes to the file
NextPiece(buf) == SubSeq(buf, 1, IF Len(buf) < WriteTokens THEN Len(buf) ELSE WriteTokens)

\* fs::write, write_all: the next piece of the text reaches the file
SaveJobWrite ==
  /\ save_pc = "writing" /\ save_buf # <<>>
  /\ state_dir' = WriteNext(state_dir, mem.id, NextPiece(save_buf))
  /\ save_buf' = SubSeq(save_buf, Len(NextPiece(save_buf)) + 1, Len(save_buf))
  /\ UNCHANGED <<mem, save_pc, save_result, loaded, storeCallerUnchanged>>

\* fs::write, write_all: a write fails (disk full, I/O error); save_job
\* returns the error and the file keeps what was written
SaveJobWriteFails ==
  /\ save_pc = "writing" /\ save_buf # <<>>
  /\ save_pc' = "idle" /\ save_buf' = <<>> /\ save_result' = "Err"
  /\ UNCHANGED <<mem, state_dir, loaded, storeCallerUnchanged>>

\* the process is killed while save_job is writing: the memory is lost, the
\* directory is what the next run finds
KilledWhileSaving ==
  /\ save_pc = "writing"
  /\ mem' = NoManagedJob
  /\ save_pc' = "idle" /\ save_buf' = <<>> /\ save_result' = "none"
  /\ UNCHANGED <<state_dir, loaded, storeCallerUnchanged>>

\* jobs.rs 219: all of the text is written, save_job returns Ok
SaveJobDone ==
  /\ save_pc = "writing" /\ save_buf = <<>>
  /\ save_pc' = "idle" /\ save_result' = "Ok"
  /\ UNCHANGED <<mem, state_dir, save_buf, loaded, storeCallerUnchanged>>

\* jobs.rs 228-254: load_jobs. A missing directory gives an empty list; a
\* failure of read_dir or of an entry is returned; a file that is not .json
\* is passed over, one that does not load is reported and passed over
LoadJobs ==
  /\ save_pc = "idle"
  /\ \E read_dir_ok \in BOOLEAN :
       loaded' =
         IF ~state_dir.exists THEN [ok |-> TRUE, cause |-> "", jobs |-> {}]
         ELSE IF ~read_dir_ok THEN [ok |-> FALSE, cause |-> "read_dir", jobs |-> {}]
         ELSE [ok |-> TRUE, cause |-> "",
               jobs |-> {load_job_from_file(f).job :
                           f \in {g \in state_dir.files :
                                    is_json_file(g) /\ load_job_from_file(g).ok}}]
  /\ UNCHANGED <<mem, state_dir, save_pc, save_buf, save_result, storeCallerUnchanged>>

StoreNext ==
  \/ CreateJob
  \/ SetStage
  \/ SetStatus
  \/ Fail
  \/ Skip
  \/ SaveJobOpen
  \/ SaveJobWrite
  \/ SaveJobWriteFails
  \/ KilledWhileSaving
  \/ SaveJobDone
  \/ LoadJobs

StoreSpec == StoreInit /\ [][StoreNext]_vars

(* ------------------------ properties of the store ---------------------- *)
\* the files save_job writes: <id>.json for the ids of the jobs created
SavedFiles == {f \in state_dir.files : f.ext = "json" /\ \E in \in JobInputs : f.stem = in[1]}

\* save_job has returned Ok in this step
SaveReturnsOk == save_result # "Ok" /\ save_result' = "Ok"

\* C23: save_job writes <id>.json atomically: whenever no save is in
\* progress (save_job has returned, with Ok or with an error, or the process
\* was killed during it), every <id>.json holds a complete record, never a
\* torn one; and when save_job returns Ok there is one file <id>.json, whose
\* content is the job's JSON text, also when the job was saved before
C23_SaveIsAtomic ==
  /\ [](save_pc = "idle" =>
          \A f \in SavedFiles :
            \E j \in {load_job_from_file(f).job} :
              load_job_from_file(f).ok /\ f.text = to_string_pretty(j))
  /\ [][SaveReturnsOk =>
          FileAt(state_dir', mem.id, "json") = {JobFile(mem.id, to_string_pretty(mem))}]_vars

\* the jobs that the calls of the store's callers can produce
StoreJobs ==
  {[id |-> in[1], input_path |-> in[2], stage |-> stage, status |-> status,
    source_type |-> in[3], error_reason |-> reason] :
      in \in JobInputs, stage \in {"queued"} \cup StageInputs,
      status \in {"pending", "failed", "skipped"} \cup StatusInputs,
      reason \in {<<>>} \cup {<<r>> : r \in ReasonInputs}}

\* load_jobs returns in this step
LoadReturns == loaded' # loaded /\ loaded' # NoLoad

\* C24: load_jobs returns every job whose .json file holds a complete record
\* and nothing else: a file that is torn, has no valid value for a field or
\* does not end in .json contributes nothing, hides no other record and
\* never makes the load fail (only a failure to read the directory does); a
\* missing directory yields an empty list; and a job that save_job has just
\* saved is returned with the same id, input_path, stage, status and
\* source_type
C24_LoadToleratesCorruption ==
  [][LoadReturns =>
       /\ ~loaded'.ok => (state_dir.exists /\ loaded'.cause = "read_dir")
       /\ ~state_dir.exists => (loaded'.ok /\ loaded'.jobs = {})
       /\ loaded'.ok =>
            /\ \A j \in StoreJobs :
                 (\E f \in state_dir.files : f.ext = "json" /\ f.text = to_string_pretty(j))
                   => j \in loaded'.jobs
            /\ \A j \in loaded'.jobs :
                 \E f \in state_dir.files : f.ext = "json" /\ f.text = to_string_pretty(j)
            /\ save_result = "Ok" =>
                 \E r \in loaded'.jobs :
                   /\ r.id = mem.id /\ r.input_path = mem.input_path
                   /\ r.stage = mem.stage /\ r.status = mem.status
                   /\ r.source_type = mem.source_type]_vars

\* C24 case: the directory holds a text file with a complete record, a
\* record with an invalid status and the torn record of j1; j2 has just
\* been saved after it was skipped, and load_jobs has returned j2 alone
C24_LoadedBesideTornRecord ==
  /\ loaded.ok /\ loaded.jobs = {mem} /\ save_result = "Ok"
  /\ mem.id = "j2" /\ mem.status = "skipped"
  /\ ForeignFiles \subseteq state_dir.files
  /\ \E f \in state_dir.files :
       f.stem = "j1" /\ f.ext = "json" /\ ~load_job_from_file(f).ok

\* C25: for every Job record, after any sequence of set_stage, set_status,
\* fail and skip calls starting from create_job, error_reason is set if and
\* only if status is failed or skipped
C25_ErrorReasonIffFailedOrSkipped ==
  mem # NoManagedJob =>
    (mem.error_reason # <<>> <=> mem.status \in {"failed", "skipped"})

(* --------------- integers and floats at their full width --------------- *)
\* A natural number of any size is the sequence of its digits in base
\* 2^12, the lowest first, with no leading zero (0 is <<>>): the sizes of
\* real files and the 53 bits of an f64 do not fit the integers of the
\* model checker.
LimbBits == 6 + 6
Limb == 2^LimbBits

Limbs(a, i) == IF i \in 1..Len(a) THEN a[i] ELSE 0

RECURSIVE Normalize(_)
Normalize(a) ==
  IF a = <<>> \/ a[Len(a)] # 0 THEN a ELSE Normalize(SubSeq(a, 1, Len(a) - 1))

\* the digits of the number whose digit positions hold the sums cs
RECURSIVE Carry(_, _)
Carry(cs, c) ==
  IF cs = <<>>
  THEN IF c = 0 THEN <<>> ELSE <<c % Limb>> \o Carry(<<>>, c \div Limb)
  ELSE <<(Head(cs) + c) % Limb>> \o Carry(Tail(cs), (Head(cs) + c) \div Limb)

BigAdd(a, b) ==
  Normalize(Carry([i \in 1..(IF Len(a) > Len(b) THEN Len(a) ELSE Len(b)) |->
                     Limbs(a, i) + Limbs(b, i)], 0))

\* the sum of a[i] * b[k + 1 - i] over the positions i..Len(a)
RECURSIVE ColumnSum(_, _, _, _)
ColumnSum(a, b, k, i) ==
  IF i > Len(a) THEN 0 ELSE a[i] * Limbs(b, k + 1 - i) + ColumnSum(a, b, k, i + 1)

BigMul(a, b) ==
  IF a = <<>> \/ b = <<>> THEN <<>>
  ELSE Normalize(Carry([k \in 1..(Len(a) + Len(b) - 1) |-> ColumnSum(a, b, k, 1)], 0))

BigLess(a, b) ==
  \/ Len(a) < Len(b)
  \/ /\ Len(a) = Len(b)
     /\ \E i \in 1..Len(a) :
          a[i] < b[i] /\ \A k \in (i + 1)..Len(a) : a[k] = b[k]

\* 2^s
Pow2(s) ==
  [i \in 1..(s \div LimbBits + 1) |-> IF i = s \div LimbBits + 1 THEN 2^(s % LimbBits) ELSE 0]

\* a * 2^s and floor(a / 2^s)
ShiftLeft(a, s) == BigMul(a, Pow2(s))
ShiftRight(a, s) ==
  IF s \div LimbBits >= Len(a) THEN <<>>
  ELSE Normalize([i \in 1..(Len(a) - s \div LimbBits) |->
                    (Limbs(a, i + s \div LimbBits) \div 2^(s % LimbBits))
                    + (Limbs(a, i + s \div LimbBits + 1) % 2^(s % LimbBits))
                        * 2^(LimbBits - (s % LimbBits))])

\* the number of binary digits of a
BitLen(a) ==
  IF a = <<>> THEN 0
  ELSE LimbBits * (Len(a) - 1)
         + (CHOOSE n \in 1..LimbBits : 2^(n - 1) <= a[Len(a)] /\ a[Len(a)] < 2^n)

\* a small integer as a natural number of any size
RECURSIVE FromInt(_)
FromInt(n) == IF n = 0 THEN <<>> ELSE <<n % Limb>> \o FromInt(n \div Limb)

\* the natural number written with the decimal digits ds
RECURSIVE Dec(_)
Dec(ds) ==
  IF ds = <<>> THEN <<>>
  ELSE BigAdd(BigMul(Dec(SubSeq(ds, 1, Len(ds) - 1)), FromInt(10)), FromInt(ds[Len(ds)]))

\* a - 1 for a natural number a > 0
RECURSIVE BigPred(_)
BigPred(a) ==
  IF a = <<1>> THEN <<>>
  ELSE IF a[1] > 0 THEN <<a[1] - 1>> \o Tail(a)
  ELSE <<Limb - 1>> \o BigPred(Tail(a))

\* u64::MAX = 2^64 - 1
U64_MAX == BigPred(Pow2(64))

\* the significand widths of f64 and f32
F64_MANTISSA_DIGITS == 53
F32_MANTISSA_DIGITS == 24

\* IEEE 754 rounding of a natural number (a significand before rounding) to
\* p significant bits: to the nearest, and to the even one of two that are
\* equally near
RoundToBits(a, p) ==
  IF BitLen(a) <= p THEN a
  ELSE LET s == BitLen(a) - p
           q == ShiftRight(a, s)
           below == ShiftLeft(q, s)
           middle == BigAdd(below, Pow2(s - 1))
           round_up == BigLess(middle, a) \/ (middle = a /\ q[1] % 2 = 1)
       IN ShiftLeft(IF round_up THEN BigAdd(q, <<1>>) ELSE q, s)

\* An f32 max_ratio is the fraction num / 2^exp with num below 2^24; widened
\* to f64 it keeps its value.
\* size_gate.rs 30: (original_bytes as f64 * max_ratio as f64) as u64. The
\* conversion of the u64 rounds to 53 bits, the product of the two f64
\* rounds to 53 bits, and the cast back truncates and saturates at u64::MAX
SizeGateThresholdU64(original_bytes, max_ratio) ==
  LET as_f64 == RoundToBits(original_bytes, F64_MANTISSA_DIGITS)
      product == RoundToBits(BigMul(as_f64, FromInt(max_ratio.num)), F64_MANTISSA_DIGITS)
      as_u64 == ShiftRight(product, max_ratio.exp)
  IN IF BigLess(U64_MAX, as_u64) THEN U64_MAX ELSE as_u64

\* check_size_gate on sizes of any width (SizeGateThreshold and
\* check_size_gate above are the same function on the small sizes of the
\* pipeline, where no rounding happens)
check_size_gate_u64(original_bytes, output_bytes, max_ratio) ==
  IF ~BigLess(output_bytes, SizeGateThresholdU64(original_bytes, max_ratio))
  THEN [kind |-> "Reject", original_bytes |-> original_bytes, output_bytes |-> output_bytes]
  ELSE [kind |-> "Accept", original_bytes |-> <<>>, output_bytes |-> <<>>]

(* ------------------ the pure functions, called one by one -------------- *)
libCallerUnchanged == <<pipelineVars, storeVars>>

LibInit == LibIdle /\ StoreIdle /\ PipelineStopped

\* a caller calls the function with the arguments and holds the result
Calls(c, r) ==
  /\ call = NoCall
  /\ call' = c /\ ret' = [v |-> r]
  /\ UNCHANGED libCallerUnchanged

\* the caller drops the result
Drops ==
  /\ call # NoCall
  /\ call' = NoCall /\ ret' = NoRet
  /\ UNCHANGED libCallerUnchanged

\* the f32 values 0.95 (JobExecutorConfig::default), 1.0, the largest f32
\* below 1.0, and 0.5
RatioInputs ==
  {[num |-> max_size_ratio_num, exp |-> 24], [num |-> 1, exp |-> 0],
   [num |-> 16777215, exp |-> 24], [num |-> 1, exp |-> 1]}

\* sizes of original files: none, the original size of the pipeline above,
\* 1 GiB + 1 and a file of some 60 GB
OriginalSizeInputs ==
  {<<>>, FromInt(InitialFileSize), Dec(<<1,0,7,3,7,4,1,8,2,5>>),
   Dec(<<6,0,4,8,1,8,6,3,9,8,0>>)}

\* floor(original_bytes * max_ratio) in exact arithmetic
ExactFloor(original_bytes, max_ratio) ==
  ShiftRight(BigMul(original_bytes, FromInt(max_ratio.num)), max_ratio.exp)

\* output sizes on both sides of the exact bound, and 0
OutputSizeInputs(original_bytes, max_ratio) ==
  LET bound == ExactFloor(original_bytes, max_ratio)
  IN {<<>>, bound, BigAdd(bound, <<1>>)}
       \cup (IF bound = <<>> THEN {} ELSE {BigPred(bound)})

CallCheckSizeGate ==
  \E original_bytes \in OriginalSizeInputs, max_ratio \in RatioInputs :
    \E output_bytes \in OutputSizeInputs(original_bytes, max_ratio) :
      Calls([fn |-> "check_size_gate", original_bytes |-> original_bytes,
             output_bytes |-> output_bytes, max_ratio |-> max_ratio],
            check_size_gate_u64(original_bytes, output_bytes, max_ratio))

\* C26: for all original_bytes, output_bytes and max_ratio in (0, 1],
\* check_size_gate returns Accept exactly when output_bytes is below
\* floor(original_bytes * max_ratio), and otherwise Reject carrying the same
\* original_bytes and output_bytes; original_bytes = 0 always gives Reject
C26_SizeGateThreshold ==
  call.fn = "check_size_gate" =>
    /\ ret.v.kind = "Accept" <=>
         BigLess(call.output_bytes, ExactFloor(call.original_bytes, call.max_ratio))
    /\ ret.v.kind # "Accept" =>
         /\ ret.v.kind = "Reject"
         /\ ret.v.original_bytes = call.original_bytes
         /\ ret.v.output_bytes = call.output_bytes
    /\ call.original_bytes = <<>> => ret.v.kind = "Reject"

(* ---------------------------- check_gates ------------------------------ *)
\* gates.rs 92-98: GateResult, Pass(probe.clone()) or Skip { reason }
GateResult(probe, outcome) ==
  IF outcome = "Pass"
  THEN [kind |-> "Pass", probe |-> probe, reason |-> ""]
  ELSE [kind |-> "Skip", probe |-> ProbeError, reason |-> outcome]

\* the video streams of the probes (by codec name), the file sizes and the
\* values of gates.min_bytes that check_gates is called with
VideoStreamInputs ==
  {<<>>, <<"h264">>, <<"AV1">>, <<"libaom-av1">>, <<"h264", "av1">>, <<"av1", "h264">>}
FileSizeInputs == {0, gates_min_bytes - 1, gates_min_bytes, InitialFileSize}
MinBytesInputs == {0, gates_min_bytes}

CallCheckGates ==
  \E video_streams \in VideoStreamInputs, file_size \in FileSizeInputs,
     min_bytes \in MinBytesInputs :
    Calls([fn |-> "check_gates", probe |-> ProbeOk(video_streams),
           file_size |-> file_size, min_bytes |-> min_bytes],
          GateResult(ProbeOk(video_streams),
                     check_gates(video_streams, file_size, min_bytes)))

\* what each gate decides on the arguments of the call, on its own
NoVideoStreams == call.probe.video_streams = <<>>
BelowMinimumSize == call.file_size < call.min_bytes
AlreadyAv1 ==
  /\ call.probe.video_streams # <<>>
  /\ call.probe.video_streams[1] \in {"av1", "AV1", "libaom-av1"}

\* C27: check_gates returns the skip reason of the first failing gate in
\* the order no-video-streams, below-minimum-size, already-AV1, whatever the
\* later gates would decide, and returns Pass carrying the unchanged probe
\* exactly when none of the three fails
C27_FirstFailingGate ==
  call.fn = "check_gates" =>
    /\ NoVideoStreams =>
         (ret.v.kind = "Skip" /\ ret.v.reason = "no video streams")
    /\ (~NoVideoStreams /\ BelowMinimumSize) =>
         (ret.v.kind = "Skip" /\ ret.v.reason = "below minimum size")
    /\ (~NoVideoStreams /\ ~BelowMinimumSize /\ AlreadyAv1) =>
         (ret.v.kind = "Skip" /\ ret.v.reason = "already AV1")
    /\ ret.v.kind = "Pass" <=> (~NoVideoStreams /\ ~BelowMinimumSize /\ ~AlreadyAv1)
    /\ ret.v.kind = "Pass" => ret.v.probe = call.probe

\* C27 case: the file is below the minimum size and its first video stream
\* is AV1: the reason returned is the size
C27_SmallAv1File ==
  /\ call.fn = "check_gates" /\ BelowMinimumSize /\ AlreadyAv1
  /\ ret.v = [kind |-> "Skip", probe |-> ProbeError, reason |-> "below minimum size"]

(* --------------------------- f32 arithmetic ---------------------------- *)
\* An f32 is not-a-number, an infinity, or the finite value num / 2^exp with
\* its sign; an absent Option<f32> is written NoFloat.
NaN == [kind |-> "nan", neg |-> FALSE, num |-> <<>>, exp |-> 0]
Infinity(neg) == [kind |-> "inf", neg |-> neg, num |-> <<>>, exp |-> 0]
Finite(neg, num, exp) == [kind |-> "finite", neg |-> neg, num |-> num, exp |-> exp]
NoFloat == [kind |-> "none", neg |-> FALSE, num |-> <<>>, exp |-> 0]

\* the f32 value n / 2^exp of a literal or of a parsed number (n below 2^24)
F32(n, exp) == Finite(FALSE, FromInt(n), exp)

\* n as f32 for an unsigned integer n
u32_as_f32(n) == Finite(FALSE, RoundToBits(FromInt(n), F32_MANTISSA_DIGITS), 0)

\* x > 0.0
IsPositive(x) ==
  \/ x.kind = "inf" /\ ~x.neg
  \/ x.kind = "finite" /\ ~x.neg /\ x.num # <<>>

\* x < y for finite values that are not negative
FiniteLess(x, y) == BigLess(ShiftLeft(x.num, y.exp), ShiftLeft(y.num, x.exp))

\* floor(a / b): the quotient is built from its highest digit down, in
\* digits of DigitBits bits; q holds the digits above position i
DigitBits == 3 + 3
RECURSIVE DivDigits(_, _, _, _)
DivDigits(a, b, i, q) ==
  IF i < 0 THEN q
  ELSE LET With(d) == BigAdd(q, ShiftLeft(FromInt(d), DigitBits * i))
           digit == CHOOSE d \in 0..(2^DigitBits - 1) :
                      /\ ~BigLess(a, BigMul(With(d), b))
                      /\ d = 2^DigitBits - 1 \/ BigLess(a, BigMul(With(d + 1), b))
       IN DivDigits(a, b, i - 1, With(digit))
FloorDiv(a, b) ==
  IF BigLess(a, b) THEN <<>>
  ELSE DivDigits(a, b, (BitLen(a) - BitLen(b)) \div DigitBits, <<>>)

\* num / 2^exp with num odd (or 0), for an exp that may be negative
RECURSIVE Reduced(_, _)
Reduced(num, exp) ==
  IF num = <<>> THEN Finite(FALSE, <<>>, 0)
  ELSE IF exp < 0 THEN Finite(FALSE, ShiftLeft(num, 0 - exp), 0)
  ELSE IF exp > 0 /\ num[1] = 0 /\ exp >= LimbBits THEN Reduced(Tail(num), exp - LimbBits)
  ELSE IF exp > 0 /\ num[1] % 2 = 0 THEN Reduced(ShiftRight(num, 1), exp - 1)
  ELSE Finite(FALSE, num, exp)

\* x * y in f32 for finite values that are not negative: the exact product
\* rounded to 24 bits
F32Mul(x, y) ==
  Reduced(RoundToBits(BigMul(x.num, y.num), F32_MANTISSA_DIGITS), x.exp + y.exp)

\* x / y in f32 for finite positive values: the quotient of the significands
\* is taken to 24 + 3 binary digits or more, a last digit records whether
\* anything is left over, and the result is rounded to 24 bits
F32Div(x, y) ==
  LET want == BitLen(y.num) + F32_MANTISSA_DIGITS + 3 - BitLen(x.num)
      k == IF want > 0 THEN want ELSE 0
      n == ShiftLeft(x.num, k)
      q == FloorDiv(n, y.num)
      sticky == IF BigMul(q, y.num) = n THEN <<>> ELSE <<1>>
  IN Reduced(RoundToBits(BigAdd(ShiftLeft(q, 1), sticky), F32_MANTISSA_DIGITS),
             k + 1 + x.exp - y.exp)

(* --------------------------- classify_source --------------------------- *)
\* classify.rs 41-47
WEB_KEYWORDS ==
  <<
     <<"w", "e", "b", "r", "i", "p">>, <<"w", "e", "b", "-", "r", "i", "p">>,
     <<"w", "e", "b", "d", "l">>, <<"w", "e", "b", "-", "d", "l">>,
     <<"w", "e", "b", ".", "d", "l">>, <<"w", "e", "b", ".", "r", "i", "p">>,
     <<"a", "m", "z", "n">>, <<"a", "m", "a", "z", "o", "n">>, <<"n", "f">>,
     <<"n", "e", "t", "f", "l", "i", "x">>, <<"h", "u", "l", "u">>,
     <<"d", "s", "n", "p">>, <<"d", "i", "s", "n", "e", "y">>,
     <<"a", "t", "v", "p">>, <<"a", "p", "p", "l", "e", "t", "v">>,
     <<"h", "m", "a", "x">>, <<"h", "b", "o">>, <<"p", "c", "o", "k">>,
     <<"p", "e", "a", "c", "o", "c", "k">>, <<"p", "m", "t", "p">>,
     <<"p", "a", "r", "a", "m", "o", "u", "n", "t">>, <<"s", "t", "a", "n">>,
     <<"i", "t">>, <<"h", "d", "t", "v">>, <<"p", "d", "t", "v">>,
     <<"w", "e", "b", "h", "d">>, <<"w", "e", "b">>,
     <<"s", "t", "r", "e", "a", "m", "i", "n", "g">> >>

\* classify.rs 50-54
DISC_KEYWORDS ==
  <<
     <<"b", "l", "u", "r", "a", "y">>, <<"b", "l", "u", "-", "r", "a", "y">>,
     <<"b", "d", "r", "i", "p">>, <<"b", "d", "-", "r", "i", "p">>,
     <<"b", "r", "r", "i", "p">>, <<"b", "r", "-", "r", "i", "p">>,
     <<"r", "e", "m", "u", "x">>, <<"b", "d", "r", "e", "m", "u", "x">>,
     <<"b", "d", ".", "r", "e", "m", "u", "x">>,
     <<"d", "v", "d", "r", "i", "p">>, <<"d", "v", "d", "-", "r", "i", "p">>,
     <<"d", "v", "d">>, <<"u", "h", "d">>,
     <<"u", "l", "t", "r", "a", "h", "d">>, <<"4", "k", ".", "u", "h", "d">>,
     <<"h", "d", "d", "v", "d">>, <<"h", "d", "-", "d", "v", "d">> >>

\* classify.rs 60: kbps per megapixel
BITRATE_THRESHOLD_KBPS_PER_MP == 6000

\* classify.rs 90-92
contains_any_keyword(path_str, keywords) ==
  \E k \in DOMAIN keywords : contains(path_str, keywords[k])

\* classify.rs 95-131; the streams are records [width, height, bitrate_kbps]
classify_by_bitrate_ratio(video_streams) ==
  IF video_streams = <<>> THEN "Unknown"
  ELSE LET video_stream == video_streams[1]
           bitrate_kbps == video_stream.bitrate_kbps
           width == u32_as_f32(video_stream.width)
           height == u32_as_f32(video_stream.height)
           megapixels == F32Div(F32Mul(width, height), F32(1000000, 0))
       IN IF ~IsPositive(bitrate_kbps) THEN "Unknown"
          ELSE IF ~IsPositive(width) \/ ~IsPositive(height) THEN "Unknown"
          ELSE IF ~IsPositive(megapixels) THEN "Unknown"
          ELSE IF /\ bitrate_kbps.kind = "finite"
                  /\ FiniteLess(F32Div(bitrate_kbps, megapixels),
                                F32(BITRATE_THRESHOLD_KBPS_PER_MP, 0))
               THEN "WebLike"
          ELSE "DiscLike"

\* a classifier that looks for the disc keywords first
classify_source_disc_first(path, video_streams) ==
  LET path_str == to_lowercase(path)
  IN IF contains_any_keyword(path_str, DISC_KEYWORDS) THEN "DiscLike"
     ELSE IF contains_any_keyword(path_str, WEB_KEYWORDS) THEN "WebLike"
     ELSE classify_by_bitrate_ratio(video_streams)
\* classify.rs 71-87
classify_source(path, video_streams) ==
  LET path_str == to_lowercase(path)
  IN IF contains_any_keyword(path_str, WEB_KEYWORDS) THEN "WebLike"
     ELSE IF contains_any_keyword(path_str, DISC_KEYWORDS) THEN "DiscLike"
     ELSE classify_by_bitrate_ratio(video_streams)

\* paths with a WEB keyword, a DISC keyword, both (AMZN; the "it" of Split),
\* and neither
ClassifyPathInputs ==
  {
    <<"/", "m", "/", "A", ".", "W", "E", "B", "-", "D", "L", ".", "m", "k", "v">>,
    <<"/", "m", "/", "A", ".", "B", "l", "u", "R", "a", "y", ".", "m", "k", "v">>,
    <<"/", "m", "/", "A", ".", "B", "l", "u", "-", "R", "a", "y", ".", "A", "M", "Z", "N", ".", "m", "k", "v">>,
    <<"/", "m", "/", "S", "p", "l", "i", "t", ".", "R", "E", "M", "U", "X", ".", "m", "k", "v">>,
    <<"/", "m", "/", "a", ".", "m", "k", "v">>
  }

VideoStream(width, height, bitrate_kbps) ==
  [width |-> width, height |-> height, bitrate_kbps |-> bitrate_kbps]

\* bitrates of a 1920x1080 stream: absent, not a number, zero, negative,
\* infinite, 5000 kbps, and the two f32 next to 6000 kbps per megapixel
\* (12441.6 kbps) on either side
BitrateInputs ==
  {NoFloat, NaN, F32(0, 0), Finite(TRUE, FromInt(5000), 0), Infinity(FALSE),
   Infinity(TRUE), F32(5000, 0), F32(12740198, 10), F32(12740199, 10)}

\* what ffprobe reports of the video streams: none; 1920x1080 at each
\* bitrate; a width or a height of 0; one megapixel at 6000 kbps and at the
\* f32 below it; 7832x464 at 21804.287109375 kbps; and two streams that
\* differ
VideoStreamsInputs ==
  {<<>>}
    \cup {<<VideoStream(1920, 1080, b)>> : b \in BitrateInputs}
    \cup {<<VideoStream(0, 1080, F32(5000, 0))>>, <<VideoStream(1920, 0, F32(5000, 0))>>,
          <<VideoStream(1000, 1000, F32(6000, 0))>>,
          <<VideoStream(1000, 1000, F32(12287999, 11))>>,
          <<VideoStream(7832, 464, F32(11163795, 9))>>,
          <<VideoStream(1920, 1080, F32(5000, 0)), VideoStream(1000, 1000, F32(6000, 0))>>,
          <<VideoStream(1920, 0, F32(5000, 0)), VideoStream(1920, 1080, F32(5000, 0))>>}

CallClassifySource ==
  \E path \in ClassifyPathInputs, video_streams \in VideoStreamsInputs :
    Calls([fn |-> "classify_source", path |-> path, video_streams |-> video_streams],
          classify_source(path, video_streams))

\* what the call's path holds, and what its first video stream says
PathHasWebKeyword ==
  \E k \in DOMAIN WEB_KEYWORDS : contains(to_lowercase(call.path), WEB_KEYWORDS[k])
PathHasDiscKeyword ==
  \E k \in DOMAIN DISC_KEYWORDS : contains(to_lowercase(call.path), DISC_KEYWORDS[k])
NoRatio ==
  \/ call.video_streams = <<>>
  \/ ~IsPositive(call.video_streams[1].bitrate_kbps)
  \/ call.video_streams[1].width = 0
  \/ call.video_streams[1].height = 0
\* bitrate_kbps per megapixel of the first stream, as the f32 quotient of
\* the bitrate by the f32 (width * height) / 1000000, is below 6000
RatioBelowThreshold ==
  LET vs == call.video_streams[1]
      area == F32Mul(u32_as_f32(vs.width), u32_as_f32(vs.height))
      per_mp == F32Div(vs.bitrate_kbps, F32Div(area, F32(1000000, 0)))
  IN vs.bitrate_kbps.kind = "finite" /\ FiniteLess(per_mp, F32(6000, 0))

F32Less(x, y) ==
  IF x.kind = "nan" \/ y.kind = "nan" THEN FALSE
  ELSE IF x.kind = "inf" THEN x.neg /\ ~(y.kind = "inf" /\ y.neg)
  ELSE IF y.kind = "inf" THEN ~y.neg
  ELSE IF x.neg /\ ~y.neg THEN x.num # <<>> \/ y.num # <<>>
  ELSE IF ~x.neg /\ y.neg THEN FALSE
  ELSE IF x.neg THEN FiniteLess(y, x)
  ELSE FiniteLess(x, y)

\* u32::MAX = 2^32 - 1
U32_MAX == BigPred(Pow2(32))

\* x.round() as u32: to the nearest integer, halves away from zero; the
\* cast gives 0 for not-a-number and for negative values and saturates at
\* u32::MAX
round_as_u32(x) ==
  IF x.kind = "nan" THEN <<>>
  ELSE IF x.neg THEN <<>>
  ELSE IF x.kind = "inf" THEN U32_MAX
  ELSE LET rounded == IF x.exp = 0 THEN x.num
                      ELSE ShiftRight(BigAdd(x.num, Pow2(x.exp - 1)), x.exp)
       IN IF BigLess(U32_MAX, rounded) THEN U32_MAX ELSE rounded

\* concurrency.rs 87-89: f32::clamp keeps a value that is not a number
clamp_utilization(util) ==
  IF F32Less(util, F32(1, 1)) THEN F32(1, 1)
  ELSE IF F32Less(F32(1, 0), util) THEN F32(1, 0)
  ELSE util

\* a planner that gives every machine 4 workers
derive_workers_flat(cores) == 4
\* concurrency.rs 67-73
derive_workers(cores) == IF cores >= 32 THEN 8 ELSE 4

\* concurrency.rs 28-61: cfg is [logical_cores, target_cpu_utilization,
\* workers_per_job, max_concurrent_jobs], logical_cores 0 - 1 when it is
\* absent; num_cpus is the number of cores the machine reports then.
\* target_threads is a number of any size; a product with a value that is
\* not a number is not a number.
derive(cfg, num_cpus) ==
  LET total_cores == IF cfg.logical_cores = 0 - 1 THEN num_cpus ELSE cfg.logical_cores
      clamped_utilization == clamp_utilization(cfg.target_cpu_utilization)
      target_threads ==
        IF clamped_utilization.kind = "nan" THEN round_as_u32(clamped_utilization)
        ELSE round_as_u32(F32Mul(u32_as_f32(total_cores), clamped_utilization))
  IN [total_cores |-> total_cores,
      target_threads |-> target_threads,
      av1an_workers |-> IF cfg.workers_per_job > 0 THEN cfg.workers_per_job
                        ELSE derive_workers(total_cores),
      max_concurrent_jobs |-> IF cfg.max_concurrent_jobs > 0 THEN cfg.max_concurrent_jobs
                              ELSE derive_max_jobs(total_cores)]

\* concurrency.rs 92-94
derive_plan(cfg, num_cpus) == derive(cfg, num_cpus)

\* cpu.logical_cores: absent, or a count on either side of 24 and of 32
LogicalCoresInputs == {0 - 1, 1, 3, 23, 24, 31, 32, 256}
\* what num_cpus::get() reports
NumCpusInputs == {4, 32}
\* av1an.workers_per_job and av1an.max_concurrent_jobs: 0 (derive) or set
WorkersInputs == {0, 1, 6}
MaxJobsInputs == {0, 3}
\* cpu.target_cpu_utilization, any f32: not a number, the infinities, -1.0,
\* 0.25, 0.5, 0.8333333 (13981013 / 2^24), 0.85 (the default), 1.0 and 3.0
UtilizationInputs ==
  {NaN, Infinity(FALSE), Infinity(TRUE), Finite(TRUE, <<1>>, 0), F32(1, 2), F32(1, 1),
   F32(13981013, 24), F32(14260634, 24), F32(1, 0), F32(3, 0)}

CallDerivePlan ==
  \E logical_cores \in LogicalCoresInputs, num_cpus \in NumCpusInputs,
     workers_per_job \in WorkersInputs, max_jobs \in MaxJobsInputs,
     util \in UtilizationInputs :
    \* the machine is asked for its cores only when the configuration has none
    /\ logical_cores = 0 - 1 \/ num_cpus = 4
    /\ Calls([fn |-> "derive_plan",
              cfg |-> [logical_cores |-> logical_cores,
                       target_cpu_utilization |-> util,
                       workers_per_job |-> workers_per_job,
                       max_concurrent_jobs |-> max_jobs],
              num_cpus |-> num_cpus],
             derive_plan([logical_cores |-> logical_cores,
                          target_cpu_utilization |-> util,
                          workers_per_job |-> workers_per_job,
                          max_concurrent_jobs |-> max_jobs], num_cpus))

\* C29: for every total_cores >= 1, derive_plan sets the workers per job to
\* the override when the override is > 0 and otherwise to 8 if total_cores
\* >= 32 else 4, and max_concurrent_jobs to the override when it is > 0 and
\* otherwise to 1 if total_cores >= 24 else 2; max_concurrent_jobs is
\* always >= 1
C29_PlanFromCoresAndOverrides ==
  (call.fn = "derive_plan" /\ ret.v.total_cores >= 1) =>
    /\ call.cfg.workers_per_job > 0 => ret.v.av1an_workers = call.cfg.workers_per_job
    /\ (call.cfg.workers_per_job = 0 /\ ret.v.total_cores >= 32) => ret.v.av1an_workers = 8
    /\ (call.cfg.workers_per_job = 0 /\ ret.v.total_cores < 32) => ret.v.av1an_workers = 4
    /\ call.cfg.max_concurrent_jobs > 0 =>
         ret.v.max_concurrent_jobs = call.cfg.max_concurrent_jobs
    /\ (call.cfg.max_concurrent_jobs = 0 /\ ret.v.total_cores >= 24) =>
         ret.v.max_concurrent_jobs = 1
    /\ (call.cfg.max_concurrent_jobs = 0 /\ ret.v.total_cores < 24) =>
         ret.v.max_concurrent_jobs = 2
    /\ ret.v.max_concurrent_jobs >= 1

\* C29 case: 32 cores found by detection, no override of the workers, and
\* an override of the jobs: 8 workers and the jobs of the override
C29_DerivedWorkersOverriddenJobs ==
  /\ call.fn = "derive_plan"
  /\ call.cfg.logical_cores = 0 - 1 /\ ret.v.total_cores = 32
  /\ call.cfg.workers_per_job = 0 /\ call.cfg.max_concurrent_jobs = 3
  /\ ret.v.av1an_workers = 8 /\ ret.v.max_concurrent_jobs = 3

\* clamp(util, 0.5, 1.0) of a utilisation that is a number, and
\* round(total_cores * c) in exact arithmetic, halves away from zero
ClampedExactly(util) ==
  IF F32Less(util, F32(1, 1)) THEN F32(1, 1)
  ELSE IF F32Less(F32(1, 0), util) THEN F32(1, 0)
  ELSE util
RoundedExactly(total_cores, c) ==
  LET product == BigMul(FromInt(total_cores), c.num)
  IN IF c.exp = 0 THEN product
     ELSE ShiftRight(BigAdd(product, Pow2(c.exp - 1)), c.exp)

\* C30: for every total_cores >= 1 and every raw utilisation value, the
\* plan has target_threads = round(total_cores * clamp(util, 0.5, 1.0)),
\* and this value is a positive integer not greater than total_cores
C30_TargetThreads ==
  (call.fn = "derive_plan" /\ ret.v.total_cores >= 1) =>
    /\ ret.v.target_threads # <<>>
    /\ ~BigLess(FromInt(ret.v.total_cores), ret.v.target_threads)
    /\ call.cfg.target_cpu_utilization.kind # "nan" =>
         ret.v.target_threads =
           RoundedExactly(ret.v.total_cores, ClampedExactly(call.cfg.target_cpu_utilization))

(* ---------------------------- scan_libraries --------------------------- *)
\* A directory entry is File(name), Symlink(name) or Dir(name, children),
\* the children in the order the walk reads them; names are sequences of
\* characters; a root that does not exist is NoRoot(name).
File(name) == [name |-> name, kind |-> "file", children |-> <<>>]
Symlink(name) == [name |-> name, kind |-> "symlink", children |-> <<>>]
Dir(name, children) == [name |-> name, kind |-> "dir", children |-> children]
NoRoot(name) == [name |-> name, kind |-> "missing", children |-> <<>>]

\* scan.rs 10, VIDEO_EXTENSIONS
VIDEO_EXTENSIONS ==
  <<<<".", "m", "k", "v">>, <<".", "m", "p", "4">>, <<".", "a", "v", "i">>, <<".", "m", "o", "v">>, <<".", "m", "4", "v">>, <<".", "t", "s">>, <<".", "m", "2", "t", "s">>>>

\* str::starts_with
starts_with(s, prefix) == Len(s) >= Len(prefix) /\ SubSeq(s, 1, Len(prefix)) = prefix

\* Path::extension of a file name: what follows the last '.', unless there
\* is no '.' or nothing before it
extension(name) ==
  LET dots == {i \in DOMAIN name : name[i] = "."}
      last == CHOOSE i \in dots : \A k \in dots : k <= i
  IN IF dots = {} \/ last = 1 THEN [some |-> FALSE, ext |-> <<>>]
     ELSE [some |-> TRUE, ext |-> SubSeq(name, last + 1, Len(name))]

\* an is_video_file that compares the extension as it is written
is_video_file_case_sensitive(name) ==
  /\ extension(name).some
  /\ \E k \in DOMAIN VIDEO_EXTENSIONS : VIDEO_EXTENSIONS[k] = <<".">> \o extension(name).ext
\* scan.rs 39-47
is_video_file(name) ==
  /\ extension(name).some
  /\ \E k \in DOMAIN VIDEO_EXTENSIONS :
       VIDEO_EXTENSIONS[k] = <<".">> \o to_lowercase(extension(name).ext)

\* scan.rs 27-36: <path>.av1skip exists, among the entries beside the file
skip_marker_name(name) == name \o <<".", "a", "v", "1", "s", "k", "i", "p">>
has_skip_marker_beside(name, siblings) ==
  \E k \in DOMAIN siblings : siblings[k].name = skip_marker_name(name)

\* scan.rs 65-106: the walk of one entry at the given depth; a path is the
\* sequence of the names from the root down.  filter_entry leaves out the
\* hidden directories below the root, with all they hold; of the entries
\* that are left, the regular files with a video extension and no marker
\* are pushed
RECURSIVE Walk(_, _, _, _), WalkEach(_, _, _, _)
Walk(entry, parent, depth, siblings) ==
  IF entry.kind = "dir"
  THEN IF starts_with(entry.name, <<".">>) /\ depth > 0 THEN <<>>
       ELSE WalkEach(entry.children, parent \o <<entry.name>>, depth + 1, 1)
  ELSE IF /\ entry.kind = "file"
          /\ is_video_file(entry.name)
          /\ ~has_skip_marker_beside(entry.name, siblings)
       THEN <<parent \o <<entry.name>>>>
       ELSE <<>>
WalkEach(entries, parent, depth, i) ==
  IF i > Len(entries) THEN <<>>
  ELSE Walk(entries[i], parent, depth, entries) \o WalkEach(entries, parent, depth, i + 1)

\* scan.rs 57-113: the roots that exist, one after the other
RECURSIVE scan_library_trees(_)
scan_library_trees(roots) ==
  IF roots = <<>> THEN <<>>
  ELSE (IF Head(roots).kind = "missing" THEN <<>> ELSE Walk(Head(roots), <<>>, 0, <<>>))
         \o scan_library_trees(Tail(roots))

\* a library: videos in lower and upper case, other files, a hidden file,
\* a file named .mkv, a symlink, a directory named like a video, hidden
\* directories at two depths, and d.mkv with its marker when marked
LibraryTree(root_name, marked) ==
  Dir(root_name,
      <<File(<<"a", ".", "m", "k", "v">>), File(<<"B", ".", "M", "P", "4">>), File(<<"c", ".", "t", "x", "t">>), File(<<"d", ".", "m", "k", "v">>)>>
        \o (IF marked THEN <<File(<<"d", ".", "m", "k", "v", ".", "a", "v", "1", "s", "k", "i", "p">>)>> ELSE <<>>)
        \o <<File(<<".", "e", ".", "m", "k", "v">>), File(<<".", "m", "k", "v">>), File(<<"n", "o", "e", "x", "t">>), Symlink(<<"m", ".", "m", "k", "v">>),
             Dir(<<"f", ".", "t", "s">>, <<File(<<"g", ".", "m", "2", "t", "s">>)>>),
             Dir(<<".", "h", "i", "d">>, <<File(<<"h", ".", "m", "k", "v">>), Dir(<<"s", "u", "b">>, <<File(<<"i", ".", "m", "k", "v">>)>>)>>),
             Dir(<<"s", "u", "b">>, <<File(<<"j", ".", "M", "o", "V">>), File(<<"k", ".", "A", "v", "i">>), File(<<"k", ".", "A", "v", "i", ".", "a", "v", "1", "s", "k", "i", "p">>),
                         Dir(<<".", "k">>, <<File(<<"l", ".", "a", "v", "i">>)>>),
                         Dir(<<"d", "e", "e", "p">>, <<File(<<"n", ".", "m", "4", "v">>), File(<<"o", ".", "m", "p", "3">>)>>)>>)>>)

\* scan.library_roots: a library, a library whose own name starts with '.',
\* a root that does not exist, and a root where a marker is a directory
RootInputs ==
  {LibraryTree(<<"l", "i", "b">>, FALSE), LibraryTree(<<".", "l", "i", "b">>, TRUE), NoRoot(<<"g", "o", "n", "e">>),
   Dir(<<"o", "n", "e">>, <<File(<<"x", ".", "m", "k", "v">>), Dir(<<"x", ".", "m", "k", "v", ".", "a", "v", "1", "s", "k", "i", "p">>, <<>>), File(<<"y", ".", "t", "s">>)>>)}

CallScanLibraries ==
  \E first \in RootInputs, second \in RootInputs :
    LET roots == IF first = second THEN <<first>> ELSE <<first, second>>
    IN Calls([fn |-> "scan_libraries", roots |-> roots], scan_library_trees(roots))

\* every entry below (and including) the entry, with its path, whether a
\* directory between the root and it is hidden, and the names beside it
RECURSIVE EntriesOf(_, _, _, _)
EntriesOf(entry, parent, hidden, beside) ==
  {[path |-> parent \o <<entry.name>>, name |-> entry.name, kind |-> entry.kind,
    hidden |-> hidden, beside |-> beside]}
    \cup UNION { EntriesOf(entry.children[k], parent \o <<entry.name>>,
                           hidden \/ (parent # <<>> /\ entry.name[1] = "."),
                           {entry.children[i].name : i \in DOMAIN entry.children})
                 : k \in DOMAIN entry.children }
EntriesUnderRoots ==
  UNION { EntriesOf(call.roots[k], <<>>, FALSE, {}) : k \in DOMAIN call.roots }
\* the name ends in '.' and one of the seven extensions, in any case, with
\* something before the '.'
HasVideoExtension(name) ==
  \E ext \in {<<"m", "k", "v">>, <<"m", "p", "4">>, <<"a", "v", "i">>, <<"m", "o", "v">>, <<"m", "4", "v">>, <<"t", "s">>, <<"m", "2", "t", "s">>} :
    /\ Len(name) > Len(ext) + 1
    /\ to_lowercase(SubSeq(name, Len(name) - Len(ext), Len(name))) = <<".">> \o ext

\* C31: scan_libraries emits a path exactly when it is a regular file under
\* a library root, its lowercased extension is one of mkv, mp4, avi, mov,
\* m4v, ts, m2ts, no directory between the root and the file has a name
\* starting with '.', and <path>.av1skip does not exist; the root directory
\* itself may have a name starting with '.'
C31_ScanEmits ==
  call.fn = "scan_libraries" =>
    {ret.v[i] : i \in DOMAIN ret.v}
      = {e.path : e \in {x \in EntriesUnderRoots :
                           /\ x.kind = "file" /\ Len(x.path) > 1
                           /\ HasVideoExtension(x.name)
                           /\ ~x.hidden
                           /\ (x.name \o <<".", "a", "v", "1", "s", "k", "i", "p">>) \notin x.beside}}

\* C31 case: under a root named .lib the scan emits a.mkv and sub/j.MoV and
\* leaves out the marked d.mkv and what the hidden directories hold
C31_HiddenRootScanned ==
  /\ call.fn = "scan_libraries"
  /\ call.roots = <<LibraryTree(<<".", "l", "i", "b">>, TRUE)>>
  /\ \E i \in DOMAIN ret.v : ret.v[i] = <<<<".", "l", "i", "b">>, <<"a", ".", "m", "k", "v">>>>
  /\ \E i \in DOMAIN ret.v : ret.v[i] = <<<<".", "l", "i", "b">>, <<"s", "u", "b">>, <<"j", ".", "M", "o", "V">>>>
  /\ \A i \in DOMAIN ret.v :
       ret.v[i] \notin {<<<<".", "l", "i", "b">>, <<"d", ".", "m", "k", "v">>>>, <<<<".", "l", "i", "b">>, <<".", "h", "i", "d">>, <<"h", ".", "m", "k", "v">>>>,
                        <<<<".", "l", "i", "b">>, <<"s", "u", "b">>, <<".", "k">>, <<"l", ".", "a", "v", "i">>>>}

(* ---------------------------- atomic_replace --------------------------- *)
\* the original and the encoded file atomic_replace is called on: each may
\* be missing; the encoded file may be larger than the original
ReplaceOriginalInputs == {OriginalFile(InitialFileSize), Missing}
ReplaceEncodedInputs == {EncodedFile(n) : n \in OutputSizes} \cup {Missing}

\* replace.rs 97-127: one call, with what each file operation does
CallAtomicReplace ==
  \E orig \in ReplaceOriginalInputs, enc \in ReplaceEncodedInputs, keep \in BOOLEAN :
    \E o \in atomic_replace(orig, enc, keep) :
      Calls([fn |-> "atomic_replace", original |-> orig, encoded |-> enc,
             keep_original |-> keep], o)

\* C32: after a successful atomic_replace, original_path holds the encoded
\* content; with keep_original = false no <original>.orig.<ts> backup
\* remains, and with keep_original = true the backup exists and holds the
\* original content
C32_SuccessfulReplace ==
  (call.fn = "atomic_replace" /\ ret.v.res = "Ok") =>
    /\ ret.v.original = call.encoded
    /\ ret.v.original.data = "encoded"
    /\ ~call.keep_original => ~Exists(ret.v.backup)
    /\ call.keep_original =>
         (Exists(ret.v.backup) /\ ret.v.backup = call.original
            /\ ret.v.backup.data = "original")

\* C32 case: a successful replacement that keeps the original
C32_ReplacedKeepingBackup ==
  /\ call.fn = "atomic_replace" /\ call.keep_original
  /\ ret.v = [res |-> "Ok", original |-> EncodedFile(40),
              backup |-> OriginalFile(InitialFileSize)]

LibNext ==
  \/ CallCheckSizeGate
  \/ CallCheckGates
  \/ CallClassifySource
  \/ CallDerivePlan
  \/ CallScanLibraries
  \/ CallAtomicReplace
  \/ Drops

LibSpec == LibInit /\ [][LibNext]_vars

(* =================== more properties of the pipeline =================== *)
\* job j is in stage replacing: from `job.state = Replacing` (332) to the
\* return of atomic_replace
Replacing(j) == job[j].pc = "pub_replacing" /\ job[j].state = "replacing"

\* C33: for any original path, at most one job is in stage replacing
\* (inside atomic_replace for that path) at any moment, even when
\* max_concurrent_jobs >= 2
C33_OneReplacerPerPath ==
  \A j1, j2 \in JobIds :
    (j1 # j2 /\ Replacing(j1) /\ Replacing(j2)) => PathOf(j1) # PathOf(j2)

\* another process appends to the file at p
Appended(p) == writes_left'[p] < writes_left[p]

\* C34: the file at a job's input_path is modified only by atomic_replace
\* in stage replacing: the steps of the scan cycle (scan, stability check,
\* probe, gates and their markers) and the executor's encoding, validation,
\* size-gating and cleanup steps leave every original's content unchanged,
\* so no step of a job outside stage replacing, whether it ends failed or
\* skipped, changes the file at its input_path
C34_OnlyReplaceModifiesOriginal ==
  [][/\ \A p \in Paths :
          file'[p] # file[p] =>
            \/ Appended(p)
            \/ \E j \in JobIds : Replacing(j) /\ PathOf(j) = p /\ JobSteps(j)
     /\ \A j \in JobIds :
          (JobSteps(j) /\ ~Replacing(j) /\ PathOf(j) \in Paths) =>
            file'[PathOf(j)] = file[PathOf(j)]]_vars

\* C34 case: a job has ended skipped, its marker is written and its
\* original is as it was when the job was admitted
C34_SkippedLeftOriginal ==
  \E j \in JobIds :
    /\ job[j].pc = "done" /\ job[j].result = "SizeGateRejected"
    /\ marker[PathOf(j)]
    /\ file[PathOf(j)] = OriginalFile(job[j].size_in_bytes_before)

\* the jobs whose execute call has returned Ok
CompletedJobs == {j \in JobIds : job[j].pc = "done" /\ job[j].result = "Ok"}

RECURSIVE OutputBytesOf(_)
\* the sum of the output sizes of a set of jobs
OutputBytesOf(js) ==
  IF js = {} THEN 0
  ELSE LET j == CHOOSE k \in js : TRUE
       IN job[j].output_bytes + OutputBytesOf(js \ {j})

C36_PermitReleased ==
  /\ [](/\ permits + Cardinality({j \in JobIds : HoldsPermit(j)})
             = max_concurrent_jobs
        /\ (~\E j \in JobIds : HoldsPermit(j)) => permits = max_concurrent_jobs)
  /\ [][\A j \in JobIds :
          (HoldsPermit(j) /\ Returns(j)) =>
            /\ permits' = permits + 1
            /\ \A k \in JobIds :
                 job'[k].pc = "wait_permit" =>
                   PermitAvailable(permits') /\ permits' > 0]_vars

\* C36 case: with one permit in the plan, one job has returned with an
\* error, another has returned skipped or completed after waiting for the
\* permit, and the permit is back in the semaphore
C36_PermitBackAfterTwoJobs ==
  /\ max_concurrent_jobs = 1
  /\ permits = 1
  /\ \E j, k \in JobIds :
       /\ job[j].pc = "done" /\ job[j].result \notin {"Ok", "SizeGateRejected"}
       /\ job[k].pc = "done" /\ job[k].result \in {"Ok", "SizeGateRejected"}

(* ================== the pipeline under fair scheduling ================= *)
\* the capacity of the job channel in the fair pipeline: scaled down from
\* CHANNEL_CAPACITY so that MaxJobs jobs fill it
FairChannelCapacity == 1

\* the steps of the task tokio::spawn starts for job j (daemon.rs 292-307),
\* apart from the acquisition of the permit
JobTask(j) ==
  \/ PublishEncoding(j)
  \/ TempDirCreationFails(j)
  \/ EncoderExits(j)
  \/ PublishValidating(j)
  \/ PublishSizeGating(j)
  \/ PublishReplacing(j)
  \/ PublishCompleted(j)
  \/ IncrementCompleted(j)
  \/ FinishCompleted(j)
  \/ PublishFailed(j)
  \/ FinishFailed(j)
  \/ PublishSkipped(j)
  \/ FinishSkipped(j)
  \/ SkipMarkerFails(j)

FairNext ==
  \/ Startup
  \/ \E p \in Paths : WriterAppends(p)
  \/ ScanBegin
  \/ CandidateHasJob
  \/ CandidateNotStable
  \/ CandidateProbeFailed
  \/ CandidateGateSkip
  \/ Admit(FairChannelCapacity)
  \/ ScanCountQueued
  \/ ScanEnd
  \/ DriverRecv
  \/ DriverSpawn
  \/ \E j \in JobIds : AcquirePermit(j) \/ JobTask(j)

\* the tokio runtime schedules the driver and every spawned task, every
\* encoder invocation terminates (EncoderExits is a step of JobTask), and
\* the semaphore serves its waiters in order, so a waiter is not passed
\* over for ever
FairSpec ==
  /\ Init /\ [][FairNext]_vars
  /\ WF_vars(DriverRecv) /\ WF_vars(DriverSpawn)
  /\ \A j \in JobIds : WF_vars(JobTask(j)) /\ SF_vars(AcquirePermit(j))

\* job j is in the channel
InChannel(j) == \E i \in DOMAIN queue : queue[i] = j
\* job j has been received by the driver
Received(j) == job[j].pc \notin {"none", "queued"}
\* job j has acquired its permit
Permitted(j) == HoldsPermit(j) \/ job[j].pc = "done"
\* the scan cycle is at a send and the channel is full
SendWaits ==
  scan_pc = "loop" /\ candidates # <<>> /\ Len(queue) >= FairChannelCapacity

\* C37: if every encoder invocation terminates and tasks are scheduled
\* fairly, every job sent on the job channel is eventually received by the
\* driver, eventually acquires a permit and eventually reaches a terminal
\* state (completed, failed or skipped); no job waits for ever in the
\* queue or for a permit, and a send that waits on a full channel
\* eventually finds room
C37_EveryJobFinishes ==
  /\ \A j \in JobIds : InChannel(j) ~> Received(j)
  /\ \A j \in JobIds : InChannel(j) ~> Permitted(j)
  /\ \A j \in JobIds : InChannel(j) ~> (job[j].state \in TerminalStages)
  /\ SendWaits ~> (Len(queue) < FairChannelCapacity)

(* ================== the metrics snapshot and its counters ============== *)
\* the entries of the snapshot's job list in one of the given stages
EntriesIn(stages) == {i \in DOMAIN metrics.jobs : metrics.jobs[i].stage \in stages}

\* C38: every snapshot a reader can take under the read lock is
\* consistent: completed_jobs is the number of entries in stage completed,
\* failed_jobs is the number of entries in stage failed or skipped, and
\* every completed entry carries its size_in_bytes_after
C38_ConsistentSnapshot ==
  /\ metrics.completed_jobs = Cardinality(EntriesIn({"completed"}))
  /\ metrics.failed_jobs = Cardinality(EntriesIn({"failed", "skipped"}))
  /\ \A i \in EntriesIn({"completed"}) :
       /\ metrics.jobs[i].size_in_bytes_after > 0
       /\ metrics.jobs[i].size_in_bytes_after = job[i].output_bytes

\* neither a send nor a receive is between its channel operation and its
\* update of queue_len
NoQueueUpdatePending == scan_pc # "queued" /\ drv_pc # "count"

\* C39: under every interleaving of the scan cycle (send, then
\* queue_len += 1) and the execution driver (receive, then saturating
\* queue_len -= 1), once both updates of a job are done queue_len is the
\* number of jobs sent and not yet received; in particular queue_len is 0
\* whenever the channel is empty and no send or receive is in progress
C39_QueueLenIsChannelLength ==
  NoQueueUpdatePending => metrics.queue_len = Len(queue)

\* the jobs whose execute call has returned, and those of them that
\* returned an error
Finished == {j \in JobIds : job[j].pc = "done"}
FinishedInError == {j \in Finished : job[j].result # "Ok"}

\* C40: for every call of execute that returns, exactly one of
\* completed_jobs and failed_jobs has been incremented, by exactly 1:
\* completed_jobs for the calls that ended completed (counted at 345,
\* before the size update and the return), failed_jobs for those that
\* ended failed or skipped; so when no call is between its increment and
\* its return, completed_jobs + failed_jobs is the number of finished calls
C40_OneCounterPerCall ==
  /\ metrics.completed_jobs = Cardinality(CountedCompleted)
  /\ metrics.failed_jobs = Cardinality(FinishedInError)
  /\ CountedCompleted \subseteq Finished =>
       metrics.completed_jobs + metrics.failed_jobs = Cardinality(Finished)

====
